---- MODULE Spec2Model ----
(***************************************************************************)
(* InvoicePilot (moufatmi/studio): the invoice record store, the agent    *)
(* page (create), the admin page (update / delete) and their forms.       *)
(*                                                                         *)
(* The repository holds several revisions of each file.  Two record       *)
(* stores are modelled (the in-memory mock of part_009 and the Firestore  *)
(* adapter of services/invoice.ts) and two revisions of the pages (state  *)
(* kept with useState and patched locally; state kept by React Query and  *)
(* invalidated).  Which revision runs is fixed in the initial state.      *)
(*                                                                         *)
(* Specifications: Spec (either page over the store, forms filled by       *)
(* hand), SpecReader (the agent page with the Smart Invoice Reader),       *)
(* SpecRows (the admin table and edit dialog handed a row without id),     *)
(* SpecConfig (the Firestore adapter with and without a usable handle),    *)
(* SpecDates (extraction of dates written in several ways, in several      *)
(* time zones), SpecAuth (login, logout, the guard and the session flag),  *)
(* SpecTable (sorting and searching the tables), SpecFilter (the agent     *)
(* page's agent-id and date-range filters, in several time zones),         *)
(* SpecAttempts (extraction attempts under the fairness that the           *)
(* FileReader and the extraction call give).                               *)
(***************************************************************************)
EXTENDS Integers, Sequences, FiniteSets, Bags, TLC

VARIABLES
    backend,            \* "mock" (part_009) or "firestore" (services/invoice.ts)
    impl,               \* "local" (useState pages) or "query" (React Query pages)
    page,               \* "home" (agent page) or "admin"
    mockInvoices,       \* the records held by the store, in insertion order
    nextId,             \* the next id the store hands out
    invoices,           \* the in-memory Invoice Collection of the mounted page
    isLoading,          \* the page's loading flag
    error,              \* the page's load-error flag
    calls,              \* store calls in flight (request sent or answer on its way)
    form,               \* InvoiceForm values
    isSubmittingManual, \* InvoiceForm submit flag
    editingInvoice,     \* admin page: invoice handed to the edit dialog
    isEditDialogOpen,   \* admin page: edit dialog open
    editForm,           \* EditInvoiceDialog form values
    isSaving,           \* EditInvoiceDialog save flag
    invoiceToDelete,    \* AdminInvoiceTable: invoice awaiting delete confirmation
    isExtracting,       \* InvoiceForm extraction flag
    reader,             \* "idle", "reading" (FileReader at work), "calling" (extraction
                        \* call in flight) or "badcall" (the same, for a file that
                        \* could not be read)
    toast,              \* title of the toast last shown ("none" before any)
    nOps,               \* store mutations issued so far
    notices,            \* titles of the toasts the latest extraction attempt has shown
    isAuthenticated,    \* AuthProvider: the authenticated flag
    sessionItem,        \* sessionStorage item 'isAuthenticated': "absent", "true", "false"
    pathname,           \* the route shown: "/", "/login" or "/admin"
    navigation,         \* the route the router is moving to ("" when it is at rest)
    isCheckingAuth,     \* AdminAuthGuard: access not yet confirmed
    username,           \* LoginPage fields
    password,
    loginError,         \* LoginPage error text ("" for null)
    loginIsLoading,     \* LoginPage: a login is in progress
    authLog,            \* the latest logins, logouts and page loads (for the properties)
    tableRevision,      \* which comparator the table sorts with: "localeCompare"
                        \* (invoice-table.tsx, part_008 line 31) or "getTime"
                        \* (part_007, part_008 line 221)
    sortKey,            \* InvoiceTable / AdminInvoiceTable: column sorted by
    sortDirection,      \* "asc" or "desc"
    filter,             \* admin page: the text of the search box
    agentIdFilter,      \* agent page: the text of the agent filter
    dateRangeFilter,    \* agent page: the range of the date filter, [from, to]
    filterRevision,     \* which agent page filters: "plain" (part_002 line 54),
                        \* "endOfDay" (part_001 line 77) or "utc" (part_001 line 242)
    timeZone,           \* the browser's time zone, in hours east of UTC
    engine,             \* the browser's JavaScript engine: "v8" or "spidermonkey"
    db                  \* lib/firebase's export: "ok" (a Firestore instance),
                        \* "undefined" (not initialized) or "invalid" (a placeholder)

vars == <<backend, impl, page, mockInvoices, nextId, invoices, isLoading, error,
          calls, form, isSubmittingManual, editingInvoice, isEditDialogOpen,
          editForm, isSaving, invoiceToDelete, isExtracting, reader, toast, nOps,
          notices, isAuthenticated, sessionItem, pathname, navigation, isCheckingAuth,
          username, password, loginError, loginIsLoading, authLog, tableRevision,
          sortKey, sortDirection, filter, agentIdFilter, dateRangeFilter,
          filterRevision, timeZone, engine, db>>

\* the state of the authentication context, the route guard and the login page
authState == <<isAuthenticated, sessionItem, pathname, navigation, isCheckingAuth,
               username, password, loginError, loginIsLoading, authLog>>

\* the state of the tables of both pages and of the admin page's search box
tableState == <<tableRevision, sortKey, sortDirection, filter>>

\* the state of the agent page's filters
agentFilterState == <<agentIdFilter, dateRangeFilter, filterRevision>>

\* the state no handler of the two invoice pages writes, but for the handlers
\* of the tables and the search box
elsewhere == <<timeZone, engine, db, authState, tableState, agentFilterState>>

\* the state of the invoice pages and the store, but for the toast
invoiceState == <<backend, impl, page, mockInvoices, nextId, invoices, isLoading, error,
                  calls, form, isSubmittingManual, editingInvoice, isEditDialogOpen,
                  editForm, isSaving, invoiceToDelete, isExtracting, reader, nOps,
                  notices, timeZone, engine, db, tableState, agentFilterState>>

(***************************************************************************)
(* Bounds of the model.                                                    *)
(***************************************************************************)
MaxOps == 2        \* store mutations (create / update / delete) issued in a run
MaxCalls == 2      \* store calls in flight at once
SeedLen == 1       \* how many of the mock store's seed records are present

(***************************************************************************)
(* Strings that are compared character by character are sequences of      *)
(* character codes; ids are naturals, 0 standing for an absent or empty   *)
(* id (both are falsy in the code's `!invoice.id` tests).                  *)
(***************************************************************************)
NoId == 0
Dash == 45
Digit(n) == 48 + n

\* date-fns format(date, 'yyyy-MM-dd'): four-digit year, zero-padded month and day
FormatYMD(d) ==
    << Digit(d.y \div 1000), Digit((d.y \div 100) % 10), Digit((d.y \div 10) % 10),
       Digit(d.y % 10), Dash, Digit(d.m \div 10), Digit(d.m % 10), Dash,
       Digit(d.d \div 10), Digit(d.d % 10) >>

Day(y, m, d) == [y |-> y, m |-> m, d |-> d]
\* the form's date field when no date is picked (undefined)
NoDate == Day(0, 0, 0)
\* calendar days a user picks in this model
Calendar == { Day(2024, 1, 1), Day(2024, 7, 20) }
\* the days that occur in this model: those picked and those of the seed records
KnownDays ==
    Calendar \cup { Day(2024, 7, 1), Day(2024, 7, 5), Day(2024, 7, 10), Day(2024, 7, 12),
                    Day(2024, 7, 15) }

\* date-fns parse(s, 'yyyy-MM-dd', new Date()): the day that formats to s, or Invalid Date
ParseYMD(s) ==
    IF \E d \in KnownDays : FormatYMD(d) = s
    THEN CHOOSE d \in KnownDays : FormatYMD(d) = s
    ELSE NoDate

\* string comparison as Firestore orders string fields: code unit by code unit
RECURSIVE StrLess(_, _)
StrLess(s, t) ==
    IF t = <<>> THEN FALSE
    ELSE IF s = <<>> THEN TRUE
    ELSE IF Head(s) # Head(t) THEN Head(s) < Head(t)
    ELSE StrLess(Tail(s), Tail(t))

(***************************************************************************)
(* Invoices.  The amount is in cents.                                      *)
(***************************************************************************)
Invoice(i, tn, br, ag, am, dt) ==
    [id |-> i, ticketNumber |-> tn, bookingReference |-> br, agentId |-> ag,
     amount |-> am, date |-> dt]

\* "no invoice" (null) for editingInvoice and invoiceToDelete
NoInvoice == Invoice(NoId, "", "", "", 0, <<>>)

\* { id, ...data } and { ...invoice, id }: the record with its id set
WithId(data, i) ==
    Invoice(i, data.ticketNumber, data.bookingReference, data.agentId, data.amount, data.date)

\* const { id, ...invoiceData } = invoice: the record without its id
WithoutId(inv) ==
    [ticketNumber |-> inv.ticketNumber, bookingReference |-> inv.bookingReference,
     agentId |-> inv.agentId, amount |-> inv.amount, date |-> inv.date]

\* the mock store's seed records (part_009, lines 32-38)
MockSeed ==
    << Invoice(1, "T123", "B456", "A001", 15075, FormatYMD(Day(2024, 7, 1))),
       Invoice(2, "T124", "B457", "A002", 23000, FormatYMD(Day(2024, 7, 5))),
       Invoice(3, "T125", "B458", "A001", 9999, FormatYMD(Day(2024, 7, 10))),
       Invoice(4, "T126", "B459", "A003", 50000, FormatYMD(Day(2024, 7, 12))),
       Invoice(5, "T127", "B460", "A002", 12050, FormatYMD(Day(2024, 7, 15))) >>

RECURSIVE SeqFilter(_, _)
\* Array.prototype.filter with the test "id differs from i"
SeqFilter(s, i) ==
    IF s = <<>> THEN <<>>
    ELSE IF Head(s).id # i THEN <<Head(s)>> \o SeqFilter(Tail(s), i)
    ELSE SeqFilter(Tail(s), i)

\* Array.prototype.findIndex(inv => inv.id === i); 0 stands for -1
FindIndex(s, i) ==
    IF \E k \in 1..Len(s) : s[k].id = i
    THEN CHOOSE k \in 1..Len(s) : s[k].id = i /\ \A j \in 1..(k - 1) : s[j].id # i
    ELSE 0

(***************************************************************************)
(* Listing.  The Firestore adapter queries orderBy('date', 'desc'); ties   *)
(* are broken by document id in the same direction.  The mock returns a   *)
(* copy of its array.                                                      *)
(***************************************************************************)
ListsBefore(a, b) ==
    \/ StrLess(b.date, a.date)
    \/ a.date = b.date /\ a.id > b.id

RECURSIVE InsertByDate(_, _)
InsertByDate(s, x) ==
    IF s = <<>> THEN <<x>>
    ELSE IF ListsBefore(x, Head(s)) THEN <<x>> \o s
    ELSE <<Head(s)>> \o InsertByDate(Tail(s), x)

RECURSIVE OrderByDateDesc(_)
OrderByDateDesc(s) ==
    IF s = <<>> THEN <<>> ELSE InsertByDate(OrderByDateDesc(Tail(s)), Head(s))

\* getInvoices: what a successful listing of store contents s returns
GetInvoices(s) ==
    IF backend = "firestore" THEN OrderByDateDesc(s) ELSE s

(***************************************************************************)
(* Error messages of the two stores.                                       *)
(***************************************************************************)
ErrFetch == "Failed to fetch invoices."
ErrSave == "Failed to save invoice."
ErrUpdate == "Failed to update invoice."
ErrDelete == "Failed to delete invoice."
ErrNotFound == "Invoice with id not found."
ErrNotFoundForDeletion == "Invoice with id not found for deletion."
ErrIdRequiredForUpdate == "Invoice ID is required for update."
ErrIdRequiredForDeletion == "Invoice ID is required for deletion."
ErrNotInitialized ==
    "Firestore is not initialized. Please check your Firebase configuration in .env.local"
ErrInvalidInstance ==
    "Firestore instance is invalid. Please check your Firebase configuration."

\* checkFirestoreInitialization: the message it throws, "" when it returns
\* (the mock store has no such check)
CheckFirestoreInitialization ==
    IF backend # "firestore" THEN ""
    ELSE IF db = "undefined" THEN ErrNotInitialized
    ELSE IF db = "invalid" THEN ErrInvalidInstance
    ELSE ""

\* the catch block of getInvoices and saveInvoice: an error whose message
\* starts with "Firestore is not initialized" is thrown again as it is, any
\* other error is replaced by the operation's generic failure
Rethrown(err, generic) ==
    IF err = ErrNotInitialized THEN err ELSE generic

(***************************************************************************)
(* The store operations, as functions of the store's contents.  Each       *)
(* yields the new contents, the next id, and the answer to the caller;     *)
(* `missing` records (for the properties only) that the target id was not  *)
(* in the store when the operation ran.  `rejected` is a backend or        *)
(* network failure of the Firestore call.                                  *)
(***************************************************************************)
Answer(s, n, ok, err, saved, data, missing) ==
    [store |-> s, nextId |-> n, ok |-> ok, err |-> err, saved |-> saved,
     data |-> data, missing |-> missing]

\* a faulty counter: the id is used but the counter is not advanced
NextIdNotAdvanced(n) == n

\* the id a create assigns: String(nextId++) in the mock, the generated
\* document id of addDoc in the Firestore adapter
AssignedId(n) == n
NextIdAfter(n) == n + 1

\* a faulty create: the record is stored with its amount dropped
StoreAfterSaveDroppingAmount(s, newInvoice) == Append(s, [newInvoice EXCEPT !.amount = 0])

\* mockInvoices.push(newInvoice) / the document addDoc writes
StoreAfterSave(s, newInvoice) == Append(s, newInvoice)

SaveInvoice(s, n, data, rejected) ==
    IF CheckFirestoreInitialization # ""
    THEN Answer(s, n, FALSE, Rethrown(CheckFirestoreInitialization, ErrSave), NoInvoice,
                <<>>, FALSE)
    ELSE IF rejected
    THEN Answer(s, n, FALSE, ErrSave, NoInvoice, <<>>, FALSE)
    ELSE LET newInvoice == WithId(data, AssignedId(n))
         IN  Answer(StoreAfterSave(s, newInvoice), NextIdAfter(n), TRUE, "",
                    newInvoice, <<>>, FALSE)

\* mockInvoices[index] = { ...invoice } / updateDoc(ref, invoiceData)
StoreAfterUpdate(s, index, inv) == [s EXCEPT ![index] = WithId(WithoutId(inv), s[index].id)]

\* the message an update of an id that is not in the store fails with
UpdateMissingError == IF backend = "mock" THEN ErrNotFound ELSE ErrUpdate

UpdateInvoice(s, n, inv, rejected) ==
    LET index == FindIndex(s, inv.id)
    IN  IF CheckFirestoreInitialization # ""
        THEN Answer(s, n, FALSE, CheckFirestoreInitialization, NoInvoice, <<>>, index = 0)
        ELSE IF backend = "firestore" /\ inv.id = NoId
        THEN Answer(s, n, FALSE, ErrIdRequiredForUpdate, NoInvoice, <<>>, TRUE)
        ELSE IF index = 0
        THEN Answer(s, n, FALSE, UpdateMissingError, NoInvoice, <<>>, TRUE)
        ELSE IF rejected
        THEN Answer(s, n, FALSE, ErrUpdate, NoInvoice, <<>>, FALSE)
        ELSE Answer(StoreAfterUpdate(s, index, inv), n, TRUE, "", NoInvoice, <<>>, FALSE)

\* the mock throws when the filter removed nothing; deleteDoc of a document
\* that does not exist resolves, so the Firestore adapter reports success
DeleteMissingOk == backend = "firestore"

DeleteInvoice(s, n, invoiceId, rejected) ==
    LET filtered == SeqFilter(s, invoiceId)
        missing == Len(filtered) = Len(s)
    IN  IF CheckFirestoreInitialization # ""
        THEN Answer(s, n, FALSE, CheckFirestoreInitialization, NoInvoice, <<>>, missing)
        ELSE IF backend = "firestore" /\ invoiceId = NoId
        THEN Answer(s, n, FALSE, ErrIdRequiredForDeletion, NoInvoice, <<>>, TRUE)
        ELSE IF rejected
        THEN Answer(s, n, FALSE, ErrDelete, NoInvoice, <<>>, missing)
        ELSE IF missing /\ ~DeleteMissingOk
        THEN Answer(filtered, n, FALSE, ErrNotFoundForDeletion, NoInvoice, <<>>, TRUE)
        ELSE Answer(filtered, n, TRUE, "", NoInvoice, <<>>, missing)

ListInvoices(s, n, rejected) ==
    IF CheckFirestoreInitialization # ""
    THEN Answer(s, n, FALSE, Rethrown(CheckFirestoreInitialization, ErrFetch), NoInvoice,
                <<>>, FALSE)
    ELSE IF rejected
    THEN Answer(s, n, FALSE, ErrFetch, NoInvoice, <<>>, FALSE)
    ELSE Answer(s, n, TRUE, "", NoInvoice, GetInvoices(s), FALSE)

(***************************************************************************)
(* Calls in flight.  phase "req": sent, not yet run by the store; "done":  *)
(* run, answer on its way to the page.                                     *)
(***************************************************************************)
Call(kind, arg) ==
    [kind |-> kind, arg |-> arg, phase |-> "req", ok |-> FALSE, err |-> "",
     saved |-> NoInvoice, data |-> <<>>, missing |-> FALSE]

Answered(c, a) ==
    [c EXCEPT !.phase = "done", !.ok = a.ok, !.err = a.err, !.saved = a.saved,
              !.data = a.data, !.missing = a.missing]

Run(c, rejected) ==
    CASE c.kind = "saveInvoice" -> SaveInvoice(mockInvoices, nextId, WithoutId(c.arg), rejected)
      [] c.kind = "updateInvoice" -> UpdateInvoice(mockInvoices, nextId, c.arg, rejected)
      [] c.kind = "deleteInvoice" -> DeleteInvoice(mockInvoices, nextId, c.arg.id, rejected)
      [] OTHER -> ListInvoices(mockInvoices, nextId, rejected)

\* the calls in flight are a bag: the order the answers arrive in is free
InFlight == BagToSet(calls)
Sent(b, c) == b (+) SetToBag({c})
Gone(b, c) == b (-) SetToBag({c})

\* the fetches a query invalidation cancels
DropFetches(b) == [c \in { x \in DOMAIN b : x.kind # "getInvoices" } |-> b[c]]

\* queryClient.invalidateQueries: cancel the fetch in flight and fetch again
InvalidateQueries(b) == Sent(DropFetches(b), Call("getInvoices", NoInvoice))

(***************************************************************************)
(* Forms.  Both forms hold the five fields, the date as a calendar day     *)
(* (a Date object) or NoDate; the edit form also holds the id.             *)
(***************************************************************************)
FormValues(i, tn, br, ag, am, dt) ==
    [id |-> i, ticketNumber |-> tn, bookingReference |-> br, agentId |-> ag,
     amount |-> am, date |-> dt]

\* useForm defaultValues of both forms
DefaultValues == FormValues(NoId, "", "", "", 0, NoDate)

\* what a user types into a form in this model: a valid entry and one entry
\* per rule of the schema that it breaks
FormInputs ==
    { FormValues(NoId, "T2", "B2", "A2", 20000, Day(2024, 7, 20)),
      FormValues(NoId, "", "B2", "A2", 20000, Day(2024, 7, 20)),
      FormValues(NoId, "T2", "", "A2", 20000, Day(2024, 7, 20)),
      FormValues(NoId, "T2", "B2", "", 20000, Day(2024, 7, 20)),
      FormValues(NoId, "T2", "B2", "A2", 0, Day(2024, 7, 20)),
      FormValues(NoId, "T2", "B2", "A2", 20000, NoDate) }

\* a faulty schema: the amount rule is nonnegative() instead of positive()
SchemaAllowingZeroAmount(v) ==
    /\ v.ticketNumber # ""
    /\ v.bookingReference # ""
    /\ v.agentId # ""
    /\ v.amount >= 0
    /\ v.date # NoDate

\* invoiceFormSchema / editInvoiceFormSchema (zod), run by form.handleSubmit
SchemaValid(v) ==
    /\ v.ticketNumber # ""
    /\ v.bookingReference # ""
    /\ v.agentId # ""
    /\ v.amount > 0
    /\ v.date # NoDate

\* { ...values, date: format(values.date, 'yyyy-MM-dd') }
ToInvoice(v) ==
    Invoice(v.id, v.ticketNumber, v.bookingReference, v.agentId, v.amount, FormatYMD(v.date))

\* form.reset({ ...invoice, date: parse(invoice.date, 'yyyy-MM-dd', new Date()) })
ToFormValues(inv) ==
    FormValues(inv.id, inv.ticketNumber, inv.bookingReference, inv.agentId, inv.amount,
               ParseYMD(inv.date))

(***************************************************************************)
(* The store runs a call.                                                  *)
(***************************************************************************)
StoreRuns(c, rejected) ==
    /\ c \in InFlight
    /\ c.phase = "req"
    /\ rejected => backend = "firestore"
    /\ LET a == Run(c, rejected)
       IN  /\ mockInvoices' = a.store
           /\ nextId' = a.nextId
           /\ calls' = Sent(Gone(calls, c), Answered(c, a))
    /\ UNCHANGED <<isExtracting, reader, notices, elsewhere, backend, impl, page, invoices, isLoading, error, form,
                   isSubmittingManual, editingInvoice, isEditDialogOpen, editForm,
                   isSaving, invoiceToDelete, toast, nOps>>

(***************************************************************************)
(* Loading the collection: fetchData (useState pages) / useQuery.          *)
(***************************************************************************)
LoadErrorToast ==
    IF impl = "query" THEN toast
    ELSE IF page = "home" THEN "Error Loading Invoices" ELSE "Error"

ReceiveInvoices(c) ==
    /\ c \in InFlight
    /\ c.phase = "done"
    /\ c.kind = "getInvoices"
    /\ calls' = Gone(calls, c)
    /\ isLoading' = FALSE
    /\ IF c.ok
       THEN /\ invoices' = c.data
            /\ error' = IF impl = "query" THEN FALSE ELSE error
            /\ toast' = toast
       ELSE /\ invoices' = invoices
            /\ error' = TRUE
            /\ toast' = LoadErrorToast
    /\ UNCHANGED <<isExtracting, reader, notices, elsewhere, backend, impl, page, mockInvoices, nextId, form, isSubmittingManual,
                   editingInvoice, isEditDialogOpen, editForm, isSaving, invoiceToDelete,
                   nOps>>

(***************************************************************************)
(* Agent page: InvoiceForm and handleAddInvoice.                           *)
(***************************************************************************)
\* the user fills the form (inputs are disabled while submitting or extracting)
TypeForm(v) ==
    /\ page = "home"
    /\ ~isSubmittingManual
    /\ ~isExtracting
    /\ v \in FormInputs
    /\ v # form
    /\ form' = v
    /\ UNCHANGED <<isExtracting, reader, notices, elsewhere, backend, impl, page, mockInvoices, nextId, invoices, isLoading, error,
                   calls, isSubmittingManual, editingInvoice, isEditDialogOpen, editForm,
                   isSaving, invoiceToDelete, toast, nOps>>

\* form.handleSubmit(handleManualSubmit), up to the store call.  With the
\* useState page the handler waits for the store; with the React Query page
\* handleAddInvoice returns once mutate() is called, so handleManualSubmit
\* runs to its end (form.reset, setIsSubmittingManual(false)) at once.
HandleManualSubmit ==
    /\ page = "home"
    /\ ~isSubmittingManual
    /\ ~isExtracting
    /\ SchemaValid(form)
    /\ nOps < MaxOps
    /\ BagCardinality(calls) < MaxCalls
    /\ calls' = Sent(calls, Call("saveInvoice", ToInvoice(form)))
    /\ nOps' = nOps + 1
    /\ isSubmittingManual' = (impl = "local")
    /\ form' = IF impl = "local" THEN form ELSE DefaultValues
    /\ UNCHANGED <<isExtracting, reader, notices, elsewhere, backend, impl, page, mockInvoices, nextId, invoices, isLoading, error,
                   editingInvoice, isEditDialogOpen, editForm, isSaving, invoiceToDelete,
                   toast>>

\* setInvoices((prev) => [...prev, savedInvoice])
AfterAdd(prev, savedInvoice) == Append(prev, savedInvoice)

\* a faulty handleAddInvoice: the collection is patched whatever the answer
HandleAddInvoiceAlwaysPatching(prev, c) == AfterAdd(prev, c.saved)

\* the collection once handleAddInvoice has the store's answer c: patched in
\* the try block, left alone in the catch block
HandleAddInvoice(prev, c) == IF c.ok THEN AfterAdd(prev, c.saved) ELSE prev

\* what handleManualSubmit leaves in the form once handleAddInvoice has
\* returned: handleAddInvoice catches the store's error itself, so the
\* await never throws and form.reset() runs after a failure too
FormAfterSubmit(v, ok) == DefaultValues

ReceiveSaved(c) ==
    /\ c \in InFlight
    /\ c.phase = "done"
    /\ c.kind = "saveInvoice"
    /\ toast' = IF c.ok THEN "Invoice Added" ELSE "Error Saving Invoice"
    /\ IF impl = "local"
       THEN /\ calls' = Gone(calls, c)
            /\ invoices' = HandleAddInvoice(invoices, c)
            /\ form' = FormAfterSubmit(form, c.ok)
            /\ isSubmittingManual' = FALSE
       ELSE /\ calls' = IF c.ok THEN InvalidateQueries(Gone(calls, c))
                        ELSE Gone(calls, c)
            /\ UNCHANGED <<invoices, form, isSubmittingManual>>
    /\ UNCHANGED <<isExtracting, reader, notices, elsewhere, backend, impl, page, mockInvoices, nextId, isLoading, error,
                   editingInvoice, isEditDialogOpen, editForm, isSaving, invoiceToDelete,
                   nOps>>

(***************************************************************************)
(* Agent page: the Smart Invoice Reader (handleFileChange and              *)
(* handleSmartExtraction).  The file name shown beside the upload button   *)
(* is not modelled.                                                        *)
(***************************************************************************)
IsDigit(c) == c >= 48 /\ c <= 57
Num2(s, k) == (s[k] - 48) * 10 + (s[k + 1] - 48)

\* the calendar: days of a month, the day before and the day after
DaysIn(y, m) ==
    IF m = 2 THEN (IF y % 4 = 0 /\ (y % 100 # 0 \/ y % 400 = 0) THEN 29 ELSE 28)
    ELSE IF m \in {4, 6, 9, 11} THEN 30 ELSE 31

PrevDay(d) ==
    IF d.d > 1 THEN Day(d.y, d.m, d.d - 1)
    ELSE IF d.m > 1 THEN Day(d.y, d.m - 1, DaysIn(d.y, d.m - 1))
    ELSE Day(d.y - 1, 12, 31)

NextDay(d) ==
    IF d.d < DaysIn(d.y, d.m) THEN Day(d.y, d.m, d.d + 1)
    ELSE IF d.m < 12 THEN Day(d.y, d.m + 1, 1)
    ELSE Day(d.y + 1, 1, 1)

\* A Date is kept as the calendar day it shows in the browser's time zone
\* (all that format(date, 'yyyy-MM-dd') reads of it).  The instant "hour h
\* of day d, UTC" is this local day:
LocalDay(d, h) ==
    IF h + timeZone < 0 THEN PrevDay(d)
    ELSE IF h + timeZone >= 24 THEN NextDay(d)
    ELSE d

\* s starts with a calendar date "YYYY-MM-DD"
IsYMD(s) ==
    /\ Len(s) >= 10
    /\ \A k \in {1, 2, 3, 4, 6, 7, 9, 10} : IsDigit(s[k])
    /\ s[5] = Dash /\ s[8] = Dash
    /\ Num2(s, 6) \in 1..12
    /\ Num2(s, 9) \in 1..DaysIn(Num2(s, 1) * 100 + Num2(s, 3), Num2(s, 6))

YMD(s) == Day(Num2(s, 1) * 100 + Num2(s, 3), Num2(s, 6), Num2(s, 9))

\* s is a UTC timestamp "YYYY-MM-DDTHH:mm:ssZ"
IsStamp(s) ==
    /\ Len(s) = 20
    /\ IsYMD(s)
    /\ s[11] = 84 /\ s[14] = 58 /\ s[17] = 58 /\ s[20] = 90
    /\ \A k \in {12, 13, 15, 16, 18, 19} : IsDigit(s[k])
    /\ Num2(s, 12) <= 23 /\ Num2(s, 15) <= 59 /\ Num2(s, 18) <= 59

\* date-fns parseISO: a calendar date is midnight of that day in the local
\* time zone, a timestamp with Z is that instant; anything else of what the
\* extraction returns in this model is Invalid Date
ParseISO(s) ==
    IF Len(s) = 10 /\ IsYMD(s) THEN YMD(s)
    ELSE IF IsStamp(s) THEN LocalDay(YMD(s), Num2(s, 12))
    ELSE NoDate

RECURSIVE Number(_, _, _)
\* the number written by the digits s[i..j]
Number(s, i, j) == IF j < i THEN 0 ELSE Number(s, i, j - 1) * 10 + (s[j] - 48)

\* where the slashes of s are
Slashes(s) == { k \in 1..Len(s) : s[k] = 47 }
FirstSlash(s) == CHOOSE k \in Slashes(s) : \A n \in Slashes(s) : k <= n
LastSlash(s) == CHOOSE k \in Slashes(s) : \A n \in Slashes(s) : k >= n

\* the day "M/D/YYYY" or "MM/DD/YYYY" names
SlashDay(s) ==
    Day(Number(s, LastSlash(s) + 1, Len(s)), Number(s, 1, FirstSlash(s) - 1),
        Number(s, FirstSlash(s) + 1, LastSlash(s) - 1))

\* s is a date "M/D/YYYY" or "MM/DD/YYYY"
IsSlashDate(s) ==
    /\ Cardinality(Slashes(s)) = 2
    /\ \A k \in (1..Len(s)) \ Slashes(s) : IsDigit(s[k])
    /\ FirstSlash(s) \in {2, 3}
    /\ LastSlash(s) - FirstSlash(s) \in {2, 3}
    /\ Len(s) - LastSlash(s) = 4
    /\ SlashDay(s).m \in 1..12
    /\ SlashDay(s).d \in 1..DaysIn(SlashDay(s).y, SlashDay(s).m)

\* new Date(string), tried when parseISO gave Invalid Date: a calendar date
\* in ISO form is midnight UTC, a timestamp is its instant, "M/D/YYYY" is
\* midnight of that day in the local time zone
NewDate(s) ==
    IF Len(s) = 10 /\ IsYMD(s) THEN LocalDay(YMD(s), 0)
    ELSE IF IsStamp(s) THEN LocalDay(YMD(s), Num2(s, 12))
    ELSE IF IsSlashDate(s) THEN SlashDay(s)
    ELSE NoDate

\* the date the reconciler puts in the form: parseISO first, then new Date
ExtractedDate(s) ==
    IF ParseISO(s) # NoDate THEN ParseISO(s) ELSE NewDate(s)

\* "not a date"
NotADate == <<110, 111, 116, 32, 97, 32, 100, 97, 116, 101>>

\* what the extraction endpoint returns in this model
RawExtractions ==
    { Invoice(NoId, "T1", "B1", "A1", 1050, FormatYMD(Day(2024, 1, 1))),
      Invoice(NoId, "T1", "B1", "A1", -500, FormatYMD(Day(2024, 1, 1))),
      Invoice(NoId, "T1", "B1", "A1", 1050, NotADate) }

\* the toasts of the date block: a warning when neither parse gave a date
DateNotices(s) == IF ExtractedDate(s) = NoDate THEN <<"Date Warning">> ELSE <<>>

\* a faulty reconciler: a date that cannot be parsed leaves the form empty
ReconciledOrNothing(raw) ==
    IF ExtractedDate(raw.date) = NoDate THEN DefaultValues
    ELSE FormValues(NoId, raw.ticketNumber, raw.bookingReference, raw.agentId, raw.amount,
                    ExtractedDate(raw.date))

\* form.setValue of the five fields from the extraction result
Reconciled(raw) ==
    FormValues(NoId, raw.ticketNumber, raw.bookingReference, raw.agentId, raw.amount,
               ExtractedDate(raw.date))

\* a file is chosen (the file input is disabled while extracting); the
\* FileReader starts reading, or setting it up throws.  One attempt is
\* followed at a time: a file chosen while the call for an unreadable file
\* is still in flight (the input is enabled then) is left out.
HandleFileChange(setupThrows) ==
    /\ page = "home"
    /\ ~isExtracting
    /\ reader = "idle"
    /\ IF setupThrows
       THEN /\ toast' = "Error"
            /\ notices' = <<"Error">>
            /\ UNCHANGED <<isExtracting, reader>>
       ELSE /\ isExtracting' = TRUE
            /\ reader' = "reading"
            /\ toast' = toast
            /\ notices' = <<>>
    /\ UNCHANGED <<elsewhere, backend, impl, page, mockInvoices, nextId, invoices, isLoading,
                   error, calls, form, isSubmittingManual, editingInvoice,
                   isEditDialogOpen, editForm, isSaving, invoiceToDelete, nOps>>

\* the FileReader ends.  On success onloadend sends the data to the
\* extraction endpoint.  On failure onerror runs (toast, flag cleared) and
\* onloadend runs as well, sending the empty result to the endpoint.
ReaderEnds(failed) ==
    /\ reader = "reading"
    /\ IF failed
       THEN /\ toast' = "File Read Error"
            /\ notices' = Append(notices, "File Read Error")
            /\ isExtracting' = FALSE
            /\ reader' = "badcall"
       ELSE /\ reader' = "calling"
            /\ UNCHANGED <<toast, notices, isExtracting>>
    /\ UNCHANGED <<elsewhere, backend, impl, page, mockInvoices, nextId, invoices, isLoading,
                   error, calls, form, isSubmittingManual, editingInvoice,
                   isEditDialogOpen, editForm, isSaving, invoiceToDelete, nOps>>

\* the extraction call succeeds with raw
ExtractionSucceeds(raw) ==
    /\ reader = "calling"
    /\ form' = Reconciled(raw)
    /\ toast' = "Extraction Successful"
    /\ notices' = notices \o DateNotices(raw.date) \o <<"Extraction Successful">>
    /\ isExtracting' = FALSE
    /\ reader' = "idle"
    /\ UNCHANGED <<elsewhere, backend, impl, page, mockInvoices, nextId, invoices, isLoading, error,
                   calls, isSubmittingManual, editingInvoice, isEditDialogOpen,
                   editForm, isSaving, invoiceToDelete, nOps>>

\* a faulty failure path: the flag is not cleared (no finally block)
ExtractionFailsKeepingFlag ==
    /\ reader \in {"calling", "badcall"}
    /\ form' = DefaultValues
    /\ toast' = "Extraction Failed"
    /\ notices' = Append(notices, "Extraction Failed")
    /\ isExtracting' = (reader = "calling")
    /\ reader' = "idle"
    /\ UNCHANGED <<elsewhere, backend, impl, page, mockInvoices, nextId, invoices, isLoading, error,
                   calls, isSubmittingManual, editingInvoice, isEditDialogOpen,
                   editForm, isSaving, invoiceToDelete, nOps>>

\* the extraction call fails (always, for a file that could not be read)
ExtractionFails ==
    /\ reader \in {"calling", "badcall"}
    /\ form' = DefaultValues
    /\ toast' = "Extraction Failed"
    /\ notices' = Append(notices, "Extraction Failed")
    /\ isExtracting' = FALSE
    /\ reader' = "idle"
    /\ UNCHANGED <<elsewhere, backend, impl, page, mockInvoices, nextId, invoices, isLoading, error,
                   calls, isSubmittingManual, editingInvoice, isEditDialogOpen,
                   editForm, isSaving, invoiceToDelete, nOps>>

(***************************************************************************)
(* Admin page: AdminInvoiceTable, EditInvoiceDialog, handleUpdate and      *)
(* handleDeleteConfirm.                                                    *)
(***************************************************************************)
\* the table is rendered once loading has ended without error, and its row
\* buttons can be reached while no modal dialog is open
TableUsable ==
    /\ page = "admin"
    /\ ~isLoading
    /\ ~error
    /\ ~isEditDialogOpen
    /\ invoiceToDelete = NoInvoice

Rows == { invoices[k] : k \in 1..Len(invoices) }

\* the edit button of a row: handleEdit, then the dialog's reset effect
HandleEdit(inv) ==
    /\ TableUsable
    /\ inv \in Rows
    /\ editingInvoice' = inv
    /\ isEditDialogOpen' = TRUE
    /\ editForm' = ToFormValues(inv)
    /\ UNCHANGED <<isExtracting, reader, notices, elsewhere, backend, impl, page, mockInvoices, nextId, invoices, isLoading, error,
                   calls, form, isSubmittingManual, isSaving, invoiceToDelete, toast, nOps>>

\* the entries a user can type into the edit form (the id is not editable)
EditInputs == { v \in FormInputs : SchemaValid(v) \/ v.amount = 0 \/ v.date = NoDate }

\* the user changes the fields of the edit form
TypeEditForm(v) ==
    /\ page = "admin"
    /\ isEditDialogOpen
    /\ ~isSaving
    /\ v \in EditInputs
    /\ [v EXCEPT !.id = editForm.id] # editForm
    /\ editForm' = [v EXCEPT !.id = editForm.id]
    /\ UNCHANGED <<isExtracting, reader, notices, elsewhere, backend, impl, page, mockInvoices, nextId, invoices, isLoading, error,
                   calls, form, isSubmittingManual, editingInvoice, isEditDialogOpen,
                   isSaving, invoiceToDelete, toast, nOps>>

\* handleSaveChanges lets the save through when the form carries an id
\* (it throws otherwise, and handleUpdate returns early on an absent id)
SaveHasId(v) == v.id # NoId

\* form.handleSubmit(handleSaveChanges), up to the store call
HandleSaveChanges ==
    /\ page = "admin"
    /\ isEditDialogOpen
    /\ ~isSaving
    /\ SchemaValid(editForm)
    /\ nOps < MaxOps
    /\ BagCardinality(calls) < MaxCalls
    /\ IF SaveHasId(editForm)
       THEN /\ calls' = Sent(calls, Call("updateInvoice", ToInvoice(editForm)))
            /\ nOps' = nOps + 1
            /\ isSaving' = (impl = "local")
       ELSE UNCHANGED <<calls, nOps, isSaving>>
    /\ UNCHANGED <<isExtracting, reader, notices, elsewhere, backend, impl, page, mockInvoices, nextId, invoices, isLoading, error,
                   form, isSubmittingManual, editingInvoice, isEditDialogOpen, editForm,
                   invoiceToDelete, toast>>

\* closing the dialog by its X, the overlay or Escape: handleOpenChange(false)
HandleOpenChange ==
    /\ page = "admin"
    /\ isEditDialogOpen
    /\ editForm' = DefaultValues
    /\ isEditDialogOpen' = FALSE
    /\ UNCHANGED <<isExtracting, reader, notices, elsewhere, backend, impl, page, mockInvoices, nextId, invoices, isLoading, error,
                   calls, form, isSubmittingManual, editingInvoice, isSaving,
                   invoiceToDelete, toast, nOps>>

RECURSIVE AfterUpdate(_, _)
\* setInvoices((prev) => prev.map((inv) => (inv.id === updated.id ? updated : inv)))
AfterUpdate(prev, updated) ==
    IF prev = <<>> THEN <<>>
    ELSE <<IF Head(prev).id = updated.id THEN updated ELSE Head(prev)>>
         \o AfterUpdate(Tail(prev), updated)

\* a faulty handleUpdate: the dialog is closed whatever the store answered
ClosedAfterUpdate(open, ok) == FALSE

\* handleUpdate: setIsEditDialogOpen(false) after a successful update only
OpenAfterUpdate(open, ok) == IF ok THEN FALSE ELSE open

ReceiveUpdated(c) ==
    /\ c \in InFlight
    /\ c.phase = "done"
    /\ c.kind = "updateInvoice"
    /\ toast' = IF c.ok THEN "Invoice Updated" ELSE "Error Updating Invoice"
    /\ isEditDialogOpen' = OpenAfterUpdate(isEditDialogOpen, c.ok)
    /\ editingInvoice' = IF c.ok THEN NoInvoice ELSE editingInvoice
    /\ isSaving' = FALSE
    /\ IF impl = "local"
       THEN /\ calls' = Gone(calls, c)
            /\ invoices' = IF c.ok THEN AfterUpdate(invoices, c.arg)
                           ELSE invoices
       ELSE /\ calls' = IF c.ok THEN InvalidateQueries(Gone(calls, c))
                        ELSE Gone(calls, c)
            /\ invoices' = invoices
    /\ UNCHANGED <<isExtracting, reader, notices, elsewhere, backend, impl, page, mockInvoices, nextId, isLoading, error, form,
                   isSubmittingManual, editForm, invoiceToDelete, nOps>>

\* the delete button of a row is disabled for an invoice without id
DeleteEnabled(inv) == inv.id # NoId

\* a faulty row button: the store is called at once, without the prompt
HandleDeleteRequestWithoutPrompt(inv) ==
    /\ TableUsable
    /\ inv \in Rows
    /\ DeleteEnabled(inv)
    /\ nOps < MaxOps
    /\ BagCardinality(calls) < MaxCalls
    /\ calls' = Sent(calls, Call("deleteInvoice", inv))
    /\ nOps' = nOps + 1
    /\ UNCHANGED <<isExtracting, reader, notices, elsewhere, backend, impl, page, mockInvoices, nextId, invoices,
                   isLoading, error, form, isSubmittingManual, editingInvoice,
                   isEditDialogOpen, editForm, isSaving, invoiceToDelete, toast>>

\* handleDeleteRequest: opens the confirmation prompt
HandleDeleteRequest(inv) ==
    /\ TableUsable
    /\ inv \in Rows
    /\ DeleteEnabled(inv)
    /\ invoiceToDelete' = inv
    /\ UNCHANGED <<isExtracting, reader, notices, elsewhere, backend, impl, page, mockInvoices, nextId, invoices, isLoading, error,
                   calls, form, isSubmittingManual, editingInvoice, isEditDialogOpen,
                   editForm, isSaving, toast, nOps>>

\* handleConfirmDeleteAction: "Yes, delete invoice"
HandleConfirmDeleteAction ==
    /\ page = "admin"
    /\ invoiceToDelete # NoInvoice
    /\ nOps < MaxOps
    /\ BagCardinality(calls) < MaxCalls
    /\ IF invoiceToDelete.id # NoId
       THEN /\ calls' = Sent(calls, Call("deleteInvoice", invoiceToDelete))
            /\ nOps' = nOps + 1
       ELSE UNCHANGED <<calls, nOps>>
    /\ invoiceToDelete' = NoInvoice
    /\ UNCHANGED <<isExtracting, reader, notices, elsewhere, backend, impl, page, mockInvoices, nextId, invoices, isLoading, error,
                   form, isSubmittingManual, editingInvoice, isEditDialogOpen, editForm,
                   isSaving, toast>>

\* handleCancelDelete: "Cancel", or dismissing the prompt
HandleCancelDelete ==
    /\ page = "admin"
    /\ invoiceToDelete # NoInvoice
    /\ invoiceToDelete' = NoInvoice
    /\ UNCHANGED <<isExtracting, reader, notices, elsewhere, backend, impl, page, mockInvoices, nextId, invoices, isLoading, error,
                   calls, form, isSubmittingManual, editingInvoice, isEditDialogOpen,
                   editForm, isSaving, toast, nOps>>

\* setInvoices((prev) => prev.filter((inv) => inv.id !== invoiceId))
AfterDelete(prev, invoiceId) == SeqFilter(prev, invoiceId)

ReceiveDeleted(c) ==
    /\ c \in InFlight
    /\ c.phase = "done"
    /\ c.kind = "deleteInvoice"
    /\ toast' = IF c.ok THEN "Invoice Deleted" ELSE "Error Deleting Invoice"
    /\ IF impl = "local"
       THEN /\ calls' = Gone(calls, c)
            /\ invoices' = IF c.ok THEN AfterDelete(invoices, c.arg.id)
                           ELSE invoices
       ELSE /\ calls' = IF c.ok THEN InvalidateQueries(Gone(calls, c))
                        ELSE Gone(calls, c)
            /\ invoices' = invoices
    /\ UNCHANGED <<isExtracting, reader, notices, elsewhere, backend, impl, page, mockInvoices, nextId, isLoading, error, form,
                   isSubmittingManual, editingInvoice, isEditDialogOpen, editForm, isSaving,
                   invoiceToDelete, nOps>>

(***************************************************************************)
(* The tables of both pages (sorting) and the admin page's search box.     *)
(***************************************************************************)
\* the UTF-16 code units of the text fields of the rows of this model
CodeUnits(str) ==
    CASE str = "T123" -> <<84, 49, 50, 51>>
      [] str = "T124" -> <<84, 49, 50, 52>>
      [] str = "T125" -> <<84, 49, 50, 53>>
      [] str = "T128" -> <<84, 49, 50, 56>>
      [] str = "B456" -> <<66, 52, 53, 54>>
      [] str = "B457" -> <<66, 52, 53, 55>>
      [] str = "B458" -> <<66, 52, 53, 56>>
      [] str = "B461" -> <<66, 52, 54, 49>>
      [] str = "A001" -> <<65, 48, 48, 49>>
      [] str = "A002" -> <<65, 48, 48, 50>>
      [] str = "A003" -> <<65, 48, 48, 51>>
      [] OTHER -> <<>>

\* String.prototype.localeCompare on strings of digits, capital letters,
\* "-" and "/" (where it agrees with the order of the code units)
LocaleCompare(s, t) == IF StrLess(s, t) THEN -1 ELSE IF StrLess(t, s) THEN 1 ELSE 0

\* the days from a fixed day to d, a number that grows with the calendar
DayNumber(d) ==
    LET before == { k \in 1..12 : k < d.m }
        RECURSIVE Sum(_)
        Sum(ms) == IF ms = {} THEN 0
                   ELSE LET k == CHOOSE x \in ms : TRUE IN DaysIn(d.y, k) + Sum(ms \ {k})
    IN  d.y * 366 + Sum(before) + d.d

\* new Date(a).getTime() - new Date(b).getTime(); NaN, which sort takes
\* for 0, when either string is not a date
GetTimeDifference(a, b) ==
    IF NewDate(a) = NoDate \/ NewDate(b) = NoDate THEN 0
    ELSE DayNumber(NewDate(a)) - DayNumber(NewDate(b))

\* the columns that have a sort button
SortKeys == {"ticketNumber", "bookingReference", "agentId", "amount", "date"}

\* the comparator handed to Array.prototype.sort
Compare(a, b, key) ==
    IF key = "amount" THEN a.amount - b.amount
    ELSE IF key = "date"
    THEN (IF tableRevision = "getTime" THEN GetTimeDifference(a.date, b.date)
          ELSE LocaleCompare(a.date, b.date))
    ELSE LocaleCompare(CodeUnits(a[key]), CodeUnits(b[key]))

\* Array.prototype.sort leaves the order to the engine when the comparator
\* is not consistent (as it is when it answers NaN for a date that cannot be
\* parsed); with a consistent comparator every engine sorts stably.  The
\* collections of this model are short, where both engines sort by insertion.

RECURSIVE InsertSorted(_, _, _)
\* SpiderMonkey's insertion sort: from the end of the sorted rows s, x is
\* put behind the first row that does not compare greater than it
InsertSorted(s, x, key) ==
    IF s = <<>> THEN <<x>>
    ELSE IF Compare(s[Len(s)], x, key) <= 0 THEN s \o <<x>>
    ELSE InsertSorted(SubSeq(s, 1, Len(s) - 1), x, key) \o <<s[Len(s)]>>

RECURSIVE InsertionSort(_, _)
InsertionSort(s, key) ==
    IF s = <<>> THEN <<>>
    ELSE InsertSorted(InsertionSort(SubSeq(s, 1, Len(s) - 1), key), s[Len(s)], key)

RECURSIVE RunEnd(_, _, _, _)
\* V8's CountAndMakeRun: the run that starts s goes on to row n for as long
\* as each row is less than the one before (descending), or not less
RunEnd(s, n, descending, key) ==
    IF n = Len(s) THEN n
    ELSE IF (Compare(s[n + 1], s[n], key) < 0) = descending
    THEN RunEnd(s, n + 1, descending, key)
    ELSE n

RECURSIVE BinarySearch(_, _, _, _, _)
\* V8's BinaryInsertionSort: where among the sorted rows s[left+1..right]
\* the pivot goes
BinarySearch(s, pivot, left, right, key) ==
    IF left >= right THEN left
    ELSE LET mid == left + (right - left) \div 2
         IN  IF Compare(pivot, s[mid + 1], key) < 0
             THEN BinarySearch(s, pivot, left, mid, key)
             ELSE BinarySearch(s, pivot, mid + 1, right, key)

RECURSIVE BinaryInsertionSort(_, _, _)
\* the rows s, of which the first n are sorted, with the others inserted
BinaryInsertionSort(s, n, key) ==
    IF n >= Len(s) THEN s
    ELSE LET at == BinarySearch(s, s[n + 1], 0, n, key)
         IN  BinaryInsertionSort(SubSeq(s, 1, at) \o <<s[n + 1]>> \o SubSeq(s, at + 1, n)
                                     \o SubSeq(s, n + 2, Len(s)),
                                 n + 1, key)

\* V8's TimSort of a short array: the first run is found (and reversed when
\* it descends), the other rows are inserted by binary search
TimSort(s, key) ==
    IF Len(s) < 2 THEN s
    ELSE LET descending == Compare(s[2], s[1], key) < 0
             n == RunEnd(s, 2, descending, key)
             run == SubSeq(s, 1, n)
         IN  BinaryInsertionSort(
                 (IF descending THEN [k \in 1..n |-> run[n - k + 1]] ELSE run)
                     \o SubSeq(s, n + 1, Len(s)),
                 n, key)

\* [...invoices].sort(comparator)
Sort(s, key) == IF engine = "v8" THEN TimSort(s, key) ELSE InsertionSort(s, key)

\* a faulty reverse: the rows are left as they are
NotReversed(s) == s

\* Array.prototype.reverse
Reverse(s) == [k \in 1..Len(s) |-> s[Len(s) - k + 1]]

\* String.prototype.toLowerCase
ToLowerCase(s) == [k \in 1..Len(s) |-> IF s[k] >= 65 /\ s[k] <= 90 THEN s[k] + 32 ELSE s[k]]

\* String.prototype.includes
Includes(s, t) == \E k \in 0..(Len(s) - Len(t)) : SubSeq(s, k + 1, k + Len(t)) = t

RECURSIVE Digits(_)
Digits(n) == IF n < 10 THEN <<Digit(n)>> ELSE Digits(n \div 10) \o <<Digit(n % 10)>>

\* Number.prototype.toString of an amount (held in cents): "150.75", "230",
\* "120.5"
AmountToString(cents) ==
    Digits(cents \div 100)
        \o (IF cents % 100 = 0 THEN <<>>
            ELSE <<46, Digit((cents % 100) \div 10)>>
                 \o (IF cents % 10 = 0 THEN <<>> ELSE <<Digit(cents % 10)>>))

\* the test of invoices.filter on the admin page
Matches(invoice, text) ==
    LET searchTerm == ToLowerCase(text)
    IN  \/ Includes(ToLowerCase(CodeUnits(invoice.ticketNumber)), searchTerm)
        \/ Includes(ToLowerCase(CodeUnits(invoice.bookingReference)), searchTerm)
        \/ Includes(ToLowerCase(CodeUnits(invoice.agentId)), searchTerm)
        \/ Includes(AmountToString(invoice.amount), searchTerm)
        \/ Includes(invoice.date, searchTerm)

RECURSIVE FilterMatching(_, _)
FilterMatching(s, text) ==
    IF s = <<>> THEN <<>>
    ELSE (IF Matches(Head(s), text) THEN <<Head(s)>> ELSE <<>>)
         \o FilterMatching(Tail(s), text)

\* A Date of the agent page's filter is kept as its instant, counted in half
\* hours from a fixed midnight UTC: every instant of this model is a whole
\* hour, but for 23:59:59.999, which is kept as half past 23.
\* getTime() of an Invalid Date
NaN == -1
\* a bound of the range that is not set
Undefined == -2

\* midnight UTC of day d, and midnight of day d in the browser's time zone
UTCMidnight(d) == DayNumber(d) * 48
LocalMidnight(d) == UTCMidnight(d) - 2 * timeZone

\* new Date(string).getTime(): a calendar date in ISO form is midnight UTC,
\* a timestamp is its instant, "M/D/YYYY" is midnight in the local time zone
GetTime(s) ==
    IF Len(s) = 10 /\ IsYMD(s) THEN UTCMidnight(YMD(s))
    ELSE IF IsStamp(s) THEN UTCMidnight(YMD(s)) + 2 * Num2(s, 12)
    ELSE IF IsSlashDate(s) THEN LocalMidnight(SlashDay(s))
    ELSE NaN

\* a >= b and a <= b on Dates: false when either is an Invalid Date
NotBefore(a, b) == a # NaN /\ b # NaN /\ a >= b
NotAfter(a, b) == a # NaN /\ b # NaN /\ a <= b

\* date.setHours(23, 59, 59, 999), date.setUTCHours(0, 0, 0, 0) and
\* date.setUTCHours(23, 59, 59, 999)
SetHoursEndOfDay(t) ==
    IF t = NaN THEN NaN ELSE ((t + 2 * timeZone) \div 48) * 48 + 47 - 2 * timeZone
SetUTCHoursMidnight(t) == IF t = NaN THEN NaN ELSE (t \div 48) * 48
SetUTCHoursEndOfDay(t) == IF t = NaN THEN NaN ELSE (t \div 48) * 48 + 47

\* dateRangeFilter undefined (or with neither date set)
NoRange == [from |-> Undefined, to |-> Undefined]

\* agentMatch of the agent page's filter
AgentMatch(invoice, text) ==
    IF text # <<>>
    THEN Includes(ToLowerCase(CodeUnits(invoice.agentId)), ToLowerCase(text))
    ELSE TRUE

\* dateMatch of the agent page's filter, in its three revisions
DateMatch(invoice, range) ==
    LET invoiceDate == GetTime(invoice.date)
    IN  /\ range.from # Undefined =>
              IF filterRevision = "utc"
              THEN NotBefore(SetUTCHoursMidnight(invoiceDate),
                             SetUTCHoursMidnight(range.from))
              ELSE NotBefore(invoiceDate, range.from)
        /\ range.to # Undefined =>
              IF filterRevision = "utc"
              THEN NotAfter(SetUTCHoursMidnight(invoiceDate),
                            SetUTCHoursEndOfDay(range.to))
              ELSE IF filterRevision = "endOfDay"
              THEN NotAfter(invoiceDate, SetHoursEndOfDay(range.to))
              ELSE NotAfter(invoiceDate, range.to)

RECURSIVE FilterAgent(_, _, _)
\* invoices.filter of the agent page
FilterAgent(s, text, range) ==
    IF s = <<>> THEN <<>>
    ELSE (IF AgentMatch(Head(s), text) /\ DateMatch(Head(s), range)
          THEN <<Head(s)>> ELSE <<>>)
         \o FilterAgent(Tail(s), text, range)

\* the Dates of the range once the filter has run over the collection s: the
\* "utc" revision calls setUTCHours on the Dates of the range themselves
RangeAfterFilter(range, s) ==
    IF filterRevision = "utc" /\ s # <<>>
    THEN [from |-> IF range.from = Undefined THEN Undefined
                   ELSE SetUTCHoursMidnight(range.from),
          to |-> IF range.to = Undefined THEN Undefined
                 ELSE SetUTCHoursEndOfDay(range.to)]
    ELSE range

\* the rows handed to the table: filteredInvoices of either page
FilteredInvoices ==
    IF page = "admin" THEN FilterMatching(invoices, filter)
    ELSE FilterAgent(invoices, agentIdFilter, dateRangeFilter)

\* the rows as the table would show them sorted in direction dir
SortedIn(dir) ==
    IF dir = "asc" THEN Sort(FilteredInvoices, sortKey)
    ELSE Reverse(Sort(FilteredInvoices, sortKey))

\* sortedInvoices: the rows as the table shows them
SortedInvoices == SortedIn(sortDirection)

\* a faulty handleSort: a newly chosen column keeps the direction
SortKeepingDirection(key, sk, sd) ==
    IF sk = key THEN <<sk, IF sd = "asc" THEN "desc" ELSE "asc">> ELSE <<key, sd>>

\* handleSort: the sort key and direction after the button of column key
SortAfter(key, sk, sd) ==
    IF sk = key THEN <<sk, IF sd = "asc" THEN "desc" ELSE "asc">> ELSE <<key, "asc">>

\* the sort button of a column
HandleSort(key) ==
    /\ key \in SortKeys
    /\ sortKey' = SortAfter(key, sortKey, sortDirection)[1]
    /\ sortDirection' = SortAfter(key, sortKey, sortDirection)[2]
    /\ UNCHANGED <<tableRevision, filter, agentFilterState, timeZone, engine, db,
                   authState,
                   backend, impl, page,
                   mockInvoices, nextId, invoices, isLoading, error, calls, form,
                   isSubmittingManual, editingInvoice, isEditDialogOpen, editForm,
                   isSaving, invoiceToDelete, isExtracting, reader, toast, nOps, notices>>

\* what is typed into the search box in this model
SearchTerms ==
    { <<>>,
      <<49, 53, 48, 46, 55, 53>>,                  \* "150.75"
      <<116, 49, 50, 51>>,                         \* "t123"
      <<84, 49, 50, 51>>,                          \* "T123"
      <<97, 48, 48>>,                              \* "a00"
      <<50, 48, 50, 52, 45, 48, 55>>,              \* "2024-07"
      <<116, 49, 48>>,                             \* "t10"
      <<57, 57>> }                                  \* "99"

\* the search box: setFilter(e.target.value)
SetFilter(text) ==
    /\ page = "admin"
    /\ text # filter
    /\ filter' = text
    /\ UNCHANGED <<tableRevision, sortKey, sortDirection, agentFilterState, timeZone, engine,
                   db, authState,
                   backend, impl, page, mockInvoices, nextId, invoices, isLoading, error,
                   calls, form, isSubmittingManual, editingInvoice, isEditDialogOpen,
                   editForm, isSaving, invoiceToDelete, isExtracting, reader, toast,
                   nOps, notices>>

\* what is typed into the agent filter in this model
AgentFilterTexts ==
    { <<>>,
      <<97, 48, 48, 49>>,         \* "a001"
      <<65, 48, 48>>,             \* "A00"
      <<50>>,                     \* "2"
      <<120>> }                   \* "x"

\* the days picked in the date range filter in this model
FilterDays == { Day(2024, 7, 2), Day(2024, 7, 5), Day(2024, 7, 10) }

\* the ranges DatePickerWithRange hands over: none, a first day alone, or a
\* first and a last day, each the local midnight of the day picked
DateRanges ==
    {NoRange}
    \cup { [from |-> LocalMidnight(f), to |-> Undefined] : f \in FilterDays }
    \cup { [from |-> LocalMidnight(r[1]), to |-> LocalMidnight(r[2])] :
             r \in { p \in FilterDays \X FilterDays : DayNumber(p[1]) <= DayNumber(p[2]) } }

\* the agent filter: setAgentIdFilter(e.target.value), and the render that
\* follows, where filteredInvoices is computed anew
SetAgentIdFilter(text) ==
    /\ page = "home"
    /\ text # agentIdFilter
    /\ agentIdFilter' = text
    /\ dateRangeFilter' = RangeAfterFilter(dateRangeFilter, invoices)
    /\ UNCHANGED <<filterRevision, tableState, timeZone, engine, db, authState, backend, impl,
                   page, mockInvoices, nextId, invoices, isLoading, error, calls, form,
                   isSubmittingManual, editingInvoice, isEditDialogOpen, editForm,
                   isSaving, invoiceToDelete, isExtracting, reader, toast, nOps, notices>>

\* the date range picker: onDateChange = setDateRangeFilter, and the render
\* that follows
SetDateRangeFilter(range) ==
    /\ page = "home"
    /\ dateRangeFilter' = RangeAfterFilter(range, invoices)
    /\ UNCHANGED <<agentIdFilter, filterRevision, tableState, timeZone, engine, db, authState,
                   backend, impl, page, mockInvoices, nextId, invoices, isLoading, error,
                   calls, form, isSubmittingManual, editingInvoice, isEditDialogOpen,
                   editForm, isSaving, invoiceToDelete, isExtracting, reader, toast,
                   nOps, notices>>

\* the Clear Filters button
HandleClearFilters ==
    /\ page = "home"
    /\ agentIdFilter' = <<>>
    /\ dateRangeFilter' = NoRange
    /\ UNCHANGED <<filterRevision, tableState, timeZone, engine, db, authState, backend, impl,
                   page, mockInvoices, nextId, invoices, isLoading, error, calls, form,
                   isSubmittingManual, editingInvoice, isEditDialogOpen, editForm,
                   isSaving, invoiceToDelete, isExtracting, reader, toast, nOps, notices>>

\* the agent page's filters as the page starts: no text, no range
FiltersAtRest ==
    /\ agentIdFilter = <<>>
    /\ dateRangeFilter = NoRange
    /\ filterRevision = "endOfDay"

\* the table as it is mounted, and the search box and the filters empty; the comparator is
\* that of the date-parsing revision where the order of the rows plays no part
TableAtRest ==
    /\ tableRevision = "getTime"
    /\ engine = "v8"
    /\ sortKey = "date"
    /\ sortDirection = "desc"
    /\ filter = <<>>
    /\ FiltersAtRest

(***************************************************************************)
(* Authentication: AuthProvider (login, logout, the flag kept in           *)
(* sessionStorage), the route guard of the admin page and the login page.  *)
(***************************************************************************)
VALID_USERNAME == "brahim"
VALID_PASSWORD == "moussab"

\* what is typed into the login form in this model
Usernames == {"", "brahim", "Brahim", "moussab"}
Passwords == {"", "moussab", "Moussab", "brahim"}

\* how many of the latest events authLog keeps
LogLen == 2

Logged(log, event) ==
    LET all == Append(log, event)
    IN  IF Len(all) <= LogLen THEN all ELSE SubSeq(all, Len(all) - LogLen + 1, Len(all))

\* a faulty check: the password is not looked at
LoginIgnoringPassword(u, p) == u = VALID_USERNAME

\* login: username === VALID_USERNAME && password === VALID_PASSWORD
Login(u, p) == u = VALID_USERNAME /\ p = VALID_PASSWORD

\* String(isAuthenticated)
StringOf(flag) == IF flag THEN "true" ELSE "false"

\* a faulty effect: the flag is written only when it is true
StoredOnlyWhenTrue(item, old, new) == IF new THEN "true" ELSE item

\* the effect that writes the flag to sessionStorage; it runs when the flag
\* has changed
Stored(item, old, new) == IF new # old THEN StringOf(new) ELSE item

\* useState initializer: sessionStorage.getItem('isAuthenticated') === 'true'
InitialFlag(item) == item = "true"

\* a faulty guard: it never redirects
RedirectNever(path, flag) == ""

\* the guard's effect on the admin route: router.replace('/login') when the
\* flag is false ("" for no redirect)
Redirect(path, flag) == IF path = "/admin" /\ ~flag THEN "/login" ELSE ""

\* AdminAuthGuard after its effect has run: setIsCheckingAuth(false) once
\* the flag is seen true on the admin route
CheckingAfterMount(path, flag) == ~(path = "/admin" /\ flag)

\* the admin page content is rendered (both revisions of the guard render
\* something else while the flag is false)
AdminContentRendered ==
    /\ pathname = "/admin"
    /\ ~(isCheckingAuth \/ ~isAuthenticated)

\* a route is mounted with the flag as given: the guard's state and effect,
\* and a fresh login form
Mounted(path, flag) ==
    /\ pathname' = path
    /\ isCheckingAuth' = CheckingAfterMount(path, flag)
    /\ navigation' = Redirect(path, flag)
    /\ username' = ""
    /\ password' = ""
    /\ loginError' = ""
    /\ loginIsLoading' = FALSE

\* the page is loaded at path (first visit, reload, address typed): the
\* provider reads the flag from sessionStorage and its effect writes it back
Visit(path) ==
    /\ path \in {"/", "/login", "/admin"}
    /\ LET flag == InitialFlag(sessionItem)
       IN  /\ isAuthenticated' = flag
           /\ sessionItem' = StringOf(flag)
           /\ Mounted(path, flag)
    /\ toast' = "none"
    /\ authLog' = Logged(authLog, "load")
    /\ UNCHANGED invoiceState

\* the links of the pages: agent page to login, admin page to agent page
FollowLink(path) ==
    /\ navigation = ""
    /\ \/ pathname = "/" /\ path = "/login"
       \/ AdminContentRendered /\ path = "/"
    /\ navigation' = path
    /\ UNCHANGED <<isAuthenticated, sessionItem, pathname, isCheckingAuth, username,
                   password, loginError, loginIsLoading, authLog, toast, invoiceState>>

\* the router arrives at the route it was moving to
NavigationCompletes ==
    /\ navigation # ""
    /\ ~loginIsLoading
    /\ Mounted(navigation, isAuthenticated)
    /\ UNCHANGED <<isAuthenticated, sessionItem, authLog, toast, invoiceState>>

\* the login form's fields (disabled while a login is in progress)
TypeCredentials(u, p) ==
    /\ pathname = "/login"
    /\ ~loginIsLoading
    /\ <<u, p>> # <<username, password>>
    /\ username' = u
    /\ password' = p
    /\ UNCHANGED <<isAuthenticated, sessionItem, pathname, navigation, isCheckingAuth,
                   loginError, loginIsLoading, authLog, toast, invoiceState>>

\* handleSubmit, up to the await of login (both fields are `required`)
HandleSubmit ==
    /\ pathname = "/login"
    /\ navigation = ""
    /\ ~loginIsLoading
    /\ username # ""
    /\ password # ""
    /\ loginError' = ""
    /\ loginIsLoading' = TRUE
    /\ UNCHANGED <<isAuthenticated, sessionItem, pathname, navigation, isCheckingAuth,
                   username, password, authLog, toast, invoiceState>>

\* login decides, the storage effect runs, and handleSubmit goes on
LoginReturns ==
    /\ loginIsLoading
    /\ LET success == Login(username, password)
       IN  /\ isAuthenticated' = success
           /\ sessionItem' = Stored(sessionItem, isAuthenticated, success)
           /\ toast' = IF success THEN "Login Successful" ELSE "Login Failed"
           /\ navigation' = IF success THEN "/admin" ELSE navigation
           /\ loginError' = IF success THEN loginError ELSE "Invalid username or password."
           /\ authLog' = Logged(authLog, IF success THEN "login" ELSE "failedLogin")
    /\ loginIsLoading' = FALSE
    /\ UNCHANGED <<pathname, isCheckingAuth, username, password, invoiceState>>

\* handleLogout of the admin page: logout() (flag cleared, item removed, and
\* the storage effect then writes the cleared flag), toast, router.push;
\* the guard's effect redirects to the same route
HandleLogout ==
    /\ AdminContentRendered
    /\ isAuthenticated' = FALSE
    /\ sessionItem' = Stored("absent", isAuthenticated, FALSE)
    /\ toast' = "Logged Out"
    /\ navigation' = "/login"
    /\ authLog' = Logged(authLog, "logout")
    /\ UNCHANGED <<pathname, isCheckingAuth, username, password, loginError,
                   loginIsLoading, invoiceState>>

\* the invoice pages are modelled with the session established: the agent
\* page needs none, the admin page is shown to its signed-in user
SignedIn ==
    /\ isAuthenticated = TRUE
    /\ sessionItem = "true"
    /\ pathname = IF page = "admin" THEN "/admin" ELSE "/"
    /\ navigation = ""
    /\ isCheckingAuth = (page # "admin")
    /\ username = ""
    /\ password = ""
    /\ loginError = ""
    /\ loginIsLoading = FALSE
    /\ authLog = <<>>

(***************************************************************************)
(* The initial state: the page has mounted and its first fetch is on its   *)
(* way.  The store starts with the first SeedLen seed records.             *)
(***************************************************************************)
InitialStore == SubSeq(MockSeed, 1, SeedLen)

Init ==
    /\ backend \in {"mock", "firestore"}
    /\ impl \in {"local", "query"}
    /\ page \in {"home", "admin"}
    /\ mockInvoices = InitialStore
    /\ nextId = Len(InitialStore) + 1
    /\ invoices = <<>>
    /\ isLoading = TRUE
    /\ error = FALSE
    /\ calls = SetToBag({Call("getInvoices", NoInvoice)})
    /\ form = DefaultValues
    /\ isSubmittingManual = FALSE
    /\ editingInvoice = NoInvoice
    /\ isEditDialogOpen = FALSE
    /\ editForm = DefaultValues
    /\ isSaving = FALSE
    /\ invoiceToDelete = NoInvoice
    /\ isExtracting = FALSE
    /\ reader = "idle"
    /\ toast = "none"
    /\ nOps = 0
    /\ notices = <<>>
    /\ SignedIn
    /\ TableAtRest
    /\ timeZone = 0
    /\ db = "ok"

Next ==
    \/ \E c \in InFlight, rejected \in BOOLEAN : StoreRuns(c, rejected)
    \/ \E c \in InFlight : ReceiveInvoices(c)
    \/ \E v \in FormInputs : TypeForm(v)
    \/ HandleManualSubmit
    \/ \E c \in InFlight : ReceiveSaved(c)
    \/ \E inv \in Rows : HandleEdit(inv)
    \/ \E v \in EditInputs : TypeEditForm(v)
    \/ HandleSaveChanges
    \/ HandleOpenChange
    \/ \E c \in InFlight : ReceiveUpdated(c)
    \/ \E inv \in Rows : HandleDeleteRequest(inv)
    \/ HandleConfirmDeleteAction
    \/ HandleCancelDelete
    \/ \E c \in InFlight : ReceiveDeleted(c)



Spec == Init /\ [][Next]_vars

(***************************************************************************)
(* The agent page with the Smart Invoice Reader in use.                    *)
(***************************************************************************)
InitReader == Init /\ page = "home"

NextReader ==
    \/ \E c \in InFlight, rejected \in BOOLEAN : StoreRuns(c, rejected)
    \/ \E c \in InFlight : ReceiveInvoices(c)
    \/ \E v \in FormInputs : TypeForm(v)
    \/ HandleManualSubmit
    \/ \E c \in InFlight : ReceiveSaved(c)
    \/ \E setupThrows \in BOOLEAN : HandleFileChange(setupThrows)
    \/ \E failed \in BOOLEAN : ReaderEnds(failed)
    \/ \E raw \in RawExtractions : ExtractionSucceeds(raw)
    \/ ExtractionFails

SpecReader == InitReader /\ [][NextReader]_vars

(***************************************************************************)
(* The admin table and edit dialog handed rows of which one has no id      *)
(* (Invoice.id is optional: a record that was never persisted).            *)
(***************************************************************************)
Pending == Invoice(NoId, "T9", "B9", "A9", 900, FormatYMD(Day(2024, 1, 1)))

PendingRows == { InitialStore \o <<Pending>>, <<Pending>> \o InitialStore }

InitRows ==
    /\ backend \in {"mock", "firestore"}
    /\ impl \in {"local", "query"}
    /\ page = "admin"
    /\ mockInvoices = InitialStore
    /\ nextId = Len(InitialStore) + 1
    /\ invoices \in PendingRows
    /\ isLoading = FALSE
    /\ error = FALSE
    /\ calls = EmptyBag
    /\ form = DefaultValues
    /\ isSubmittingManual = FALSE
    /\ editingInvoice = NoInvoice
    /\ isEditDialogOpen = FALSE
    /\ editForm = DefaultValues
    /\ isSaving = FALSE
    /\ invoiceToDelete = NoInvoice
    /\ isExtracting = FALSE
    /\ reader = "idle"
    /\ toast = "none"
    /\ nOps = 0
    /\ notices = <<>>
    /\ SignedIn
    /\ TableAtRest
    /\ timeZone = 0
    /\ db = "ok"

NextRows ==
    \/ \E c \in InFlight, rejected \in BOOLEAN : StoreRuns(c, rejected)
    \/ \E c \in InFlight : ReceiveInvoices(c)
    \/ \E inv \in Rows : HandleEdit(inv)
    \/ \E v \in EditInputs : TypeEditForm(v)
    \/ HandleSaveChanges
    \/ HandleOpenChange
    \/ \E c \in InFlight : ReceiveUpdated(c)
    \/ \E inv \in Rows : HandleDeleteRequest(inv)
    \/ HandleConfirmDeleteAction
    \/ HandleCancelDelete
    \/ \E c \in InFlight : ReceiveDeleted(c)

SpecRows == InitRows /\ [][NextRows]_vars

(***************************************************************************)
(* The pages over the Firestore adapter, whatever lib/firebase exports,    *)
(* and over a store that may be empty.                                     *)
(***************************************************************************)
InitConfig ==
    /\ backend = "firestore"
    /\ impl \in {"local", "query"}
    /\ page \in {"home", "admin"}
    /\ mockInvoices \in {<<>>, InitialStore}
    /\ nextId = Len(InitialStore) + 1
    /\ invoices = <<>>
    /\ isLoading = TRUE
    /\ error = FALSE
    /\ calls = SetToBag({Call("getInvoices", NoInvoice)})
    /\ form = DefaultValues
    /\ isSubmittingManual = FALSE
    /\ editingInvoice = NoInvoice
    /\ isEditDialogOpen = FALSE
    /\ editForm = DefaultValues
    /\ isSaving = FALSE
    /\ invoiceToDelete = NoInvoice
    /\ isExtracting = FALSE
    /\ reader = "idle"
    /\ toast = "none"
    /\ nOps = 0
    /\ notices = <<>>
    /\ SignedIn
    /\ TableAtRest
    /\ timeZone = 0
    /\ db \in {"ok", "undefined", "invalid"}

SpecConfig == InitConfig /\ [][Next]_vars

(***************************************************************************)
(* The Smart Invoice Reader handed dates in several shapes, in browsers    *)
(* of several time zones (mock store, useState page).                      *)
(***************************************************************************)
\* "YYYY-MM-DDTHH:00:00Z" and "MM/DD/YYYY"
Stamp(d, h) ==
    FormatYMD(d) \o <<84, Digit(h \div 10), Digit(h % 10), 58, 48, 48, 58, 48, 48, 90>>
SlashDate(d) ==
    << Digit(d.m \div 10), Digit(d.m % 10), 47, Digit(d.d \div 10), Digit(d.d % 10), 47,
       Digit(d.y \div 1000), Digit((d.y \div 100) % 10), Digit((d.y \div 10) % 10),
       Digit(d.y % 10) >>

\* the time zones of this model: Pago Pago, London in winter, Kiritimati
TimeZones == {-11, 0, 14}

\* what the extraction endpoint returns in this model: the ticket number
\* tells the shape of the date
DatedExtractions ==
    { Invoice(NoId, "T-STAMP", "B1", "A1", 1050, Stamp(Day(2024, 7, 1), 10)),
      Invoice(NoId, "T-DAY", "B1", "A1", 1050, FormatYMD(Day(2024, 7, 1))),
      Invoice(NoId, "T-SLASH", "B1", "A1", 1050, SlashDate(Day(2024, 7, 1))),
      Invoice(NoId, "T-NONE", "B1", "A1", 1050, NotADate) }

InitDates ==
    /\ backend = "mock"
    /\ impl = "local"
    /\ page = "home"
    /\ mockInvoices = InitialStore
    /\ nextId = Len(InitialStore) + 1
    /\ invoices = <<>>
    /\ isLoading = TRUE
    /\ error = FALSE
    /\ calls = SetToBag({Call("getInvoices", NoInvoice)})
    /\ form = DefaultValues
    /\ isSubmittingManual = FALSE
    /\ editingInvoice = NoInvoice
    /\ isEditDialogOpen = FALSE
    /\ editForm = DefaultValues
    /\ isSaving = FALSE
    /\ invoiceToDelete = NoInvoice
    /\ isExtracting = FALSE
    /\ reader = "idle"
    /\ toast = "none"
    /\ nOps = 0
    /\ notices = <<>>
    /\ SignedIn
    /\ TableAtRest
    /\ timeZone \in TimeZones
    /\ db = "ok"

NextDates ==
    \/ \E c \in InFlight, rejected \in BOOLEAN : StoreRuns(c, rejected)
    \/ \E c \in InFlight : ReceiveInvoices(c)
    \/ \E v \in FormInputs : TypeForm(v)
    \/ HandleManualSubmit
    \/ \E c \in InFlight : ReceiveSaved(c)
    \/ \E setupThrows \in BOOLEAN : HandleFileChange(setupThrows)
    \/ \E failed \in BOOLEAN : ReaderEnds(failed)
    \/ \E raw \in DatedExtractions : ExtractionSucceeds(raw)
    \/ ExtractionFails

SpecDates == InitDates /\ [][NextDates]_vars

(***************************************************************************)
(* Authentication and routing alone: a fresh browsing session, opened at   *)
(* any of the three routes.                                                *)
(***************************************************************************)
InitAuth ==
    /\ backend = "mock"
    /\ impl = "local"
    /\ page = "admin"
    /\ mockInvoices = InitialStore
    /\ nextId = Len(InitialStore) + 1
    /\ invoices = <<>>
    /\ isLoading = TRUE
    /\ error = FALSE
    /\ calls = EmptyBag
    /\ form = DefaultValues
    /\ isSubmittingManual = FALSE
    /\ editingInvoice = NoInvoice
    /\ isEditDialogOpen = FALSE
    /\ editForm = DefaultValues
    /\ isSaving = FALSE
    /\ invoiceToDelete = NoInvoice
    /\ isExtracting = FALSE
    /\ reader = "idle"
    /\ toast = "none"
    /\ nOps = 0
    /\ notices = <<>>
    /\ timeZone = 0
    /\ db = "ok"
    /\ TableAtRest
    /\ isAuthenticated = InitialFlag("absent")
    /\ sessionItem = StringOf(isAuthenticated)
    /\ pathname \in {"/", "/login", "/admin"}
    /\ navigation = Redirect(pathname, isAuthenticated)
    /\ isCheckingAuth = CheckingAfterMount(pathname, isAuthenticated)
    /\ username = ""
    /\ password = ""
    /\ loginError = ""
    /\ loginIsLoading = FALSE
    /\ authLog = <<"load">>

NextAuth ==
    \/ \E path \in {"/", "/login", "/admin"} : Visit(path)
    \/ \E path \in {"/", "/login"} : FollowLink(path)
    \/ NavigationCompletes
    \/ \E u \in Usernames, p \in Passwords : TypeCredentials(u, p)
    \/ HandleSubmit
    \/ LoginReturns
    \/ HandleLogout

SpecAuth == InitAuth /\ [][NextAuth]_vars

(***************************************************************************)
(* The tables and the search box alone, over collections whose dates are   *)
(* written in several ways.                                                *)
(***************************************************************************)
\* "M/D/YYYY", not padded
ShortDate(d) ==
    Digits(d.m) \o <<47>> \o Digits(d.d) \o <<47>> \o Digits(d.y)

\* the collections shown in this model: dates as the form writes them (with
\* two equal amounts), dates not padded, timestamps, and dates that cannot
\* be parsed among dates that can
TableInputs ==
    { << MockSeed[1], MockSeed[3], MockSeed[2],
         Invoice(6, "T128", "B461", "A003", 15075, FormatYMD(Day(2024, 7, 3))) >>,
      << Invoice(1, "T123", "B456", "A001", 15075, ShortDate(Day(2024, 7, 5))),
         Invoice(2, "T124", "B457", "A002", 23000, ShortDate(Day(2024, 7, 10))) >>,
      << Invoice(2, "T124", "B457", "A002", 23000, ShortDate(Day(2024, 7, 10))),
         Invoice(1, "T123", "B456", "A001", 15075, ShortDate(Day(2024, 7, 5))) >>,
      << Invoice(1, "T123", "B456", "A001", 15075, Stamp(Day(2024, 7, 1), 10)),
         Invoice(2, "T124", "B457", "A002", 23000, Stamp(Day(2024, 7, 5), 10)) >>,
      << Invoice(3, "T125", "B458", "A001", 9999, FormatYMD(Day(2024, 7, 10))),
         Invoice(2, "T124", "B457", "A002", 23000, NotADate),
         Invoice(1, "T123", "B456", "A001", 15075, FormatYMD(Day(2024, 7, 1))),
         Invoice(6, "T128", "B461", "A003", 15075, NotADate) >> }

InitTable ==
    /\ backend = "mock"
    /\ impl = "local"
    /\ page \in {"home", "admin"}
    /\ mockInvoices = InitialStore
    /\ nextId = Len(InitialStore) + 1
    /\ invoices \in TableInputs
    /\ isLoading = FALSE
    /\ error = FALSE
    /\ calls = EmptyBag
    /\ form = DefaultValues
    /\ isSubmittingManual = FALSE
    /\ editingInvoice = NoInvoice
    /\ isEditDialogOpen = FALSE
    /\ editForm = DefaultValues
    /\ isSaving = FALSE
    /\ invoiceToDelete = NoInvoice
    /\ isExtracting = FALSE
    /\ reader = "idle"
    /\ toast = "none"
    /\ nOps = 0
    /\ notices = <<>>
    /\ SignedIn
    /\ tableRevision \in {"localeCompare", "getTime"}
    /\ engine \in {"v8", "spidermonkey"}
    /\ sortKey = "date"
    /\ sortDirection = "desc"
    /\ filter = <<>>
    /\ FiltersAtRest
    /\ timeZone = 0
    /\ db = "ok"

NextTable ==
    \/ \E key \in SortKeys : HandleSort(key)
    \/ \E text \in SearchTerms : SetFilter(text)

SpecTable == InitTable /\ [][NextTable]_vars

(***************************************************************************)
(* The Smart Invoice Reader where what was started comes to an end: the    *)
(* FileReader ends every read (loadend), the extraction call is answered   *)
(* or fails, and the store answers its calls.                              *)
(***************************************************************************)
InitAttempts == InitDates /\ timeZone = 0

SpecAttempts ==
    /\ InitAttempts
    /\ [][NextDates]_vars
    /\ WF_vars(\E failed \in BOOLEAN : ReaderEnds(failed))
    /\ WF_vars((\E raw \in DatedExtractions : ExtractionSucceeds(raw)) \/ ExtractionFails)

(***************************************************************************)
(* The agent page's filters alone, in browsers of several time zones.      *)
(***************************************************************************)
\* the collections filtered in this model: dates as the form writes them
FilterInputs ==
    { <<>>,
      << Invoice(1, "T123", "B456", "A001", 15075, FormatYMD(Day(2024, 7, 1))),
         Invoice(2, "T124", "B457", "A002", 23000, FormatYMD(Day(2024, 7, 2))),
         Invoice(3, "T125", "B458", "A001", 9999, FormatYMD(Day(2024, 7, 10))),
         Invoice(6, "T128", "B461", "A003", 15075, FormatYMD(Day(2024, 7, 11))) >> }

InitFilter ==
    /\ backend = "mock"
    /\ impl = "local"
    /\ page = "home"
    /\ mockInvoices = InitialStore
    /\ nextId = Len(InitialStore) + 1
    /\ invoices \in FilterInputs
    /\ isLoading = FALSE
    /\ error = FALSE
    /\ calls = EmptyBag
    /\ form = DefaultValues
    /\ isSubmittingManual = FALSE
    /\ editingInvoice = NoInvoice
    /\ isEditDialogOpen = FALSE
    /\ editForm = DefaultValues
    /\ isSaving = FALSE
    /\ invoiceToDelete = NoInvoice
    /\ isExtracting = FALSE
    /\ reader = "idle"
    /\ toast = "none"
    /\ nOps = 0
    /\ notices = <<>>
    /\ SignedIn
    /\ tableRevision = "getTime"
    /\ sortKey = "date"
    /\ sortDirection = "desc"
    /\ filter = <<>>
    /\ agentIdFilter = <<>>
    /\ dateRangeFilter = NoRange
    /\ filterRevision \in {"plain", "endOfDay", "utc"}
    /\ engine = "v8"
    /\ timeZone \in TimeZones
    /\ db = "ok"

NextFilter ==
    \/ \E key \in SortKeys : HandleSort(key)
    \/ \E text \in AgentFilterTexts : SetAgentIdFilter(text)
    \/ \E range \in DateRanges : SetDateRangeFilter(range)
    \/ HandleClearFilters

SpecFilter == InitFilter /\ [][NextFilter]_vars

(***************************************************************************)
(* Properties.                                                             *)
(***************************************************************************)
\* the page takes the answer c of the store in this step
Received(c) == c.phase = "done" /\ CopiesIn(c, calls') < CopiesIn(c, calls)

Mutations == {"saveInvoice", "updateInvoice", "deleteInvoice"}

\* C1: once every call has been answered and the last load succeeded, the
\* in-memory collection equals the store's contents in listing order (the
\* collection is only ever written from a full re-fetch).
C1_CollectionIsListing ==
    (calls = EmptyBag /\ ~isLoading /\ ~error) => invoices = GetInvoices(mockInvoices)

\* C2: an update whose id is not in the store fails, with an error other
\* than the generic write failure.
C2_UpdateMissingIsNotFound ==
    \A c \in InFlight :
        (c.kind = "updateInvoice" /\ c.phase = "done" /\ c.missing)
            => (~c.ok /\ c.err # ErrUpdate)

\* C3: a delete whose id is not in the store (never there, or deleted
\* before) fails, with an error other than the generic write failure.
C3_DeleteMissingIsNotFound ==
    \A c \in InFlight :
        (c.kind = "deleteInvoice" /\ c.phase = "done" /\ c.missing)
            => (~c.ok /\ c.err # ErrDelete)

\* the notice the page shows for a failed mutation
FailureNotice(kind) ==
    CASE kind = "saveInvoice" -> "Error Saving Invoice"
      [] kind = "updateInvoice" -> "Error Updating Invoice"
      [] kind = "deleteInvoice" -> "Error Deleting Invoice"

\* C4: the step in which the page learns that a create, update or delete
\* failed leaves the in-memory collection as it was and shows the failure
\* notice.
C4_FailureLeavesCollection ==
    [][\A c \in InFlight :
          (Received(c) /\ c.kind \in Mutations /\ ~c.ok)
              => (invoices' = invoices /\ toast' = FailureNotice(c.kind))]_vars

C4_Witness ==
    /\ toast \in {"Error Saving Invoice", "Error Updating Invoice", "Error Deleting Invoice"}
    /\ invoices # <<>>

\* the delete requests sent to the store in this step
NewDeleteCalls ==
    { c \in BagToSet(calls') :
        c.kind = "deleteInvoice" /\ c.phase = "req" /\ CopiesIn(c, calls') > CopiesIn(c, calls) }

\* C5: a delete is sent to the store only from the open confirmation prompt,
\* for the invoice the prompt was opened for, and closes the prompt;
\* cancelling the prompt sends nothing and closes it.
C5_DeleteNeedsConfirmation ==
    [][/\ \A c \in NewDeleteCalls :
             /\ invoiceToDelete # NoInvoice
             /\ c.arg = invoiceToDelete
             /\ invoiceToDelete' = NoInvoice
       /\ HandleCancelDelete => (calls' = calls /\ invoiceToDelete' = NoInvoice)]_vars

C5_Witness ==
    /\ invoiceToDelete = NoInvoice
    /\ \E c \in InFlight : c.kind = "deleteInvoice" /\ c.phase = "req"

\* C6: when the page learns that a manual create failed, the form still
\* holds the values that were submitted.
C6_FailedCreateKeepsForm ==
    [][\A c \in InFlight :
          (Received(c) /\ c.kind = "saveInvoice" /\ ~c.ok) => ToInvoice(form') = c.arg]_vars

C9_CreateRoundTrip ==
    \A c \in InFlight :
        (c.kind = "saveInvoice" /\ c.phase = "done" /\ c.ok)
            => LET listed == GetInvoices(mockInvoices)
               IN  /\ c.saved.id # NoId
                   /\ WithoutId(c.saved) = WithoutId(c.arg)
                   /\ Cardinality({ k \in 1..Len(listed) : listed[k].id = c.saved.id }) = 1
                   /\ \A k \in 1..Len(listed) : listed[k].id = c.saved.id => listed[k] = c.saved

C9_Witness ==
    \E c \in InFlight :
        c.kind = "saveInvoice" /\ c.phase = "done" /\ c.ok /\ Len(mockInvoices) > SeedLen

ExtractionDone == reader = "calling" /\ reader' = "idle" /\ toast' = "Extraction Successful"

\* how many of the notices ns have title t
Count(ns, t) == Cardinality({ k \in 1..Len(ns) : ns[k] = t })

\* C12: a successful extraction leaves a date in the form, or leaves the
\* date unset and shows exactly one date warning; and an invoice whose date
\* was extracted as "2024-07-01T10:00:00Z", "2024-07-01" or "07/01/2024" is
\* submitted with the date "2024-07-01".
C12_ExtractedDateResolves ==
    [][/\ ExtractionDone =>
             Count(notices', "Date Warning") = (IF form'.date = NoDate THEN 1 ELSE 0)
       /\ \A c \in BagToSet(calls') :
             (c.kind = "saveInvoice" /\ c.arg.ticketNumber \in {"T-STAMP", "T-DAY", "T-SLASH"})
                 => c.arg.date = FormatYMD(Day(2024, 7, 1))]_vars

\* the extraction attempt has ended in failure in this step
ExtractionFailed ==
    reader \in {"calling", "badcall"} /\ reader' = "idle" /\ toast' = "Extraction Failed"

\* the toasts that tell the user of a failure of the Smart Invoice Reader
FailureTitles == {"Extraction Failed", "File Read Error", "Error"}

\* C13: when an extraction attempt fails, whether in the extraction call or
\* in reading the file, the form is back at its default values and the
\* attempt has shown exactly one failure notice.
C13_OneFailureNotice ==
    [][ExtractionFailed =>
          /\ form' = DefaultValues
          /\ Cardinality({ k \in 1..Len(notices') : notices'[k] \in FailureTitles }) = 1]_vars

\* login has returned in this step
LoginReturned ==
    /\ loginIsLoading /\ ~loginIsLoading'
    /\ toast' \in {"Login Successful", "Login Failed"}

\* C14: when login returns, the flag is true and success is reported exactly
\* when the username is "brahim" and the password is "moussab", letter for
\* letter; otherwise failure is reported and the flag is false, whatever
\* it was before.
C14_LoginOnlyWithFixedPair ==
    [][LoginReturned =>
          LET exact == username = "brahim" /\ password = "moussab"
          IN  /\ isAuthenticated' = exact
              /\ toast' = (IF exact THEN "Login Successful" ELSE "Login Failed")
              /\ navigation' = (IF exact THEN "/admin" ELSE navigation)]_vars

\* a login failed in a session that was signed in before
C14_Witness ==
    /\ authLog = <<"login", "failedLogin">>
    /\ ~isAuthenticated

\* C15: the admin page content is rendered only while the flag is true, and
\* whenever the admin route is shown with the flag false the router is
\* moving to the login route.
C15_AdminOnlyWhenAuthenticated ==
    /\ AdminContentRendered => isAuthenticated
    /\ (pathname = "/admin" /\ ~isAuthenticated) => navigation = "/login"

\* the flag became false while the admin page was shown
C15_Witness ==
    /\ pathname = "/admin"
    /\ ~isAuthenticated
    /\ authLog # <<>> /\ authLog[Len(authLog)] = "logout"

\* the latest login or logout in the log, page loads skipped
LastAuthEvent ==
    IF authLog # <<>> /\ authLog[Len(authLog)] # "load" THEN authLog[Len(authLog)]
    ELSE IF Len(authLog) > 1 /\ authLog[Len(authLog) - 1] # "load"
    THEN authLog[Len(authLog) - 1]
    ELSE "unknown"

\* C16: after a successful login the stored item is 'true' and the flag is
\* true, also once the page has been loaded again; after a logout or a failed
\* login the stored item is not 'true' and the flag is false, also once the
\* page has been loaded again.
C16_SessionFlagRoundTrip ==
    /\ LastAuthEvent = "login" => (sessionItem = "true" /\ isAuthenticated)
    /\ LastAuthEvent \in {"logout", "failedLogin"}
           => (sessionItem # "true" /\ ~isAuthenticated)

\* the page was loaded again after a successful login
C16_Witness ==
    /\ authLog = <<"login", "load">>
    /\ isAuthenticated

\* the time of a row's date, as new Date(date).getTime() orders it
TimeOf(invoice) == DayNumber(NewDate(invoice.date))

\* C17: sorted by date, the rows are in the order of their dates' times:
\* ascending, no row is later than a row below it (descending, the other way
\* round), however the dates are written.
C17_DateOrderIsByTime ==
    sortKey = "date" =>
        \A i, j \in 1..Len(SortedInvoices) :
            i < j => IF sortDirection = "asc"
                     THEN TimeOf(SortedInvoices[i]) <= TimeOf(SortedInvoices[j])
                     ELSE TimeOf(SortedInvoices[i]) >= TimeOf(SortedInvoices[j])

\* C18: sorted by amount ascending, no row has a greater amount than a row
\* below it; the descending order is the ascending order read backwards,
\* rows of equal amount included.
C18_AmountOrderAndReverse ==
    sortKey = "amount" =>
        LET asc == SortedIn("asc")
            desc == SortedIn("desc")
        IN  /\ \A i, j \in 1..Len(asc) : i < j => asc[i].amount <= asc[j].amount
            /\ Len(desc) = Len(asc)
            /\ \A k \in 1..Len(asc) : desc[k] = asc[Len(asc) - k + 1]
            /\ SortedInvoices = (IF sortDirection = "asc" THEN asc ELSE desc)

\* rows of equal amount are shown, sorted by amount descending
C18_Witness ==
    /\ sortKey = "amount"
    /\ sortDirection = "desc"
    /\ \E i, j \in 1..Len(SortedInvoices) :
          i < j /\ SortedInvoices[i].amount = SortedInvoices[j].amount

\* C19: the table starts sorted by date, descending; the button of the
\* active column flips the direction and keeps the column, the button of
\* another column makes it the active one, ascending.
C19_SortStateTransitions ==
    /\ (sortKey = "date" /\ sortDirection = "desc")
    /\ [][\A key \in SortKeys :
             HandleSort(key) =>
                 IF key = sortKey
                 THEN sortKey' = sortKey /\ sortDirection' # sortDirection
                      /\ sortDirection' \in {"asc", "desc"}
                 ELSE sortKey' = key /\ sortDirection' = "asc"]_vars

\* another column was chosen while the direction was descending
C19_Witness ==
    /\ sortKey = "amount"
    /\ sortDirection = "asc"

\* the date-blind reading of the search: the text occurs, letter case aside,
\* in one of the five fields
OccursIn(invoice, text) ==
    \E field \in { CodeUnits(invoice.ticketNumber), CodeUnits(invoice.bookingReference),
                    CodeUnits(invoice.agentId), AmountToString(invoice.amount),
                    invoice.date } :
        Includes(ToLowerCase(field), ToLowerCase(text))

\* C20: the admin page shows a record exactly when the search text occurs,
\* letter case aside, in its ticket number, booking reference, agent id,
\* amount as text, or date; so the empty text shows every record, and
\* "150.75" shows the records of amount 150.75.
C20_SearchMatchesFiveFields ==
    page = "admin" =>
        \A k \in 1..Len(invoices) :
            (\E n \in 1..Len(FilteredInvoices) : FilteredInvoices[n] = invoices[k])
                <=> OccursIn(invoices[k], filter)

\* the calendar day an instant falls on in the browser's time zone
LocalDayOf(t) == (t + 2 * timeZone) \div 48

\* C21: the agent page shows a record exactly when its agent id contains the
\* filter text, letter case aside, and its date is not before the `from` day
\* and not after the `to` day; a text, `from` or `to` that is not set
\* constrains nothing.  So with from 2024-07-02 and to 2024-07-10 a record
\* of 2024-07-01 is left out and one of 2024-07-10 is shown.
C21_AgentFilterByTextAndDays ==
    page = "home" =>
        \A k \in 1..Len(invoices) :
            (\E n \in 1..Len(FilteredInvoices) : FilteredInvoices[n] = invoices[k])
                <=> /\ Includes(ToLowerCase(CodeUnits(invoices[k].agentId)),
                                ToLowerCase(agentIdFilter))
                    /\ dateRangeFilter.from # Undefined =>
                          DayNumber(YMD(invoices[k].date)) >= LocalDayOf(dateRangeFilter.from)
                    /\ dateRangeFilter.to # Undefined =>
                          DayNumber(YMD(invoices[k].date)) <= LocalDayOf(dateRangeFilter.to)

\* the records of a sequence, whatever their order
Records(s) == { s[k] : k \in 1..Len(s) }

\* C22: when store operations overlapped (two mutations, or a mutation and a
\* load still pending), then once every call has been answered and the page
\* is at rest the in-memory collection holds exactly the records of the
\* store: none the store no longer has, and none of the store's missing.
C22_OverlapEndsConsistent ==
    (calls = EmptyBag /\ ~isLoading /\ ~error) => Records(invoices) = Records(mockInvoices)

\* the page takes the answer of an update in this step, a failure or a success
UpdateFailed == \E c \in InFlight : Received(c) /\ c.kind = "updateInvoice" /\ ~c.ok
UpdateSucceeded == \E c \in InFlight : Received(c) /\ c.kind = "updateInvoice" /\ c.ok

\* C23: the step in which the page learns that an update failed leaves the
\* edit dialog open and the edit form with the values the user entered; the
\* page closes the dialog and clears the edited invoice only in the step in
\* which it learns that an update succeeded (the user can close the dialog).
C23_FailedUpdateKeepsDialog ==
    [][/\ UpdateFailed =>
             /\ isEditDialogOpen' = isEditDialogOpen
             /\ editForm' = editForm
             /\ editingInvoice' = editingInvoice
       /\ (isEditDialogOpen /\ ~isEditDialogOpen') => (UpdateSucceeded \/ HandleOpenChange)
       /\ (editingInvoice # NoInvoice /\ editingInvoice' = NoInvoice) => UpdateSucceeded]_vars

\* an update has failed and the dialog is open with values other than the
\* stored invoice's
C23_Witness ==
    /\ toast = "Error Updating Invoice"
    /\ isEditDialogOpen
    /\ editingInvoice # NoInvoice
    /\ editForm # ToFormValues(editingInvoice)

\* C24: when the extraction succeeds but its date cannot be parsed (the one
\* such result here is that of ticket "T-NONE"), the attempt still ends as a
\* success: the ticket number, booking reference, agent id and amount of the
\* result are in the form, and only the date is left unset.
C24_BadDateKeepsOtherFields ==
    [][(ExtractionDone /\ Count(notices', "Date Warning") >= 1) =>
          /\ form' = FormValues(NoId, "T-NONE", "B1", "A1", 1050, NoDate)
          /\ ~isExtracting']_vars

\* the extraction of the unparseable date has ended and filled the form
C24_Witness ==
    /\ toast = "Extraction Successful"
    /\ notices = <<"Date Warning", "Extraction Successful">>
    /\ form.ticketNumber = "T-NONE"
    /\ form.amount = 1050
    /\ form.date = NoDate

\* C25: from the moment a file is taken for extraction until the attempt has
\* ended, in success or in failure, the upload control is disabled
\* (isExtracting), so that no second extraction call can be issued beside
\* the one in flight.
C25_UploadDisabledDuringAttempt ==
    reader # "idle" => isExtracting

\* how many store calls of a kind are in flight (sent and not yet taken back
\* by the page)
InFlightOf(kind) ==
    LET cs == { c \in BagToSet(calls) : c.kind = kind }
        RECURSIVE Sum(_)
        Sum(s) == IF s = {} THEN 0
                  ELSE LET c == CHOOSE x \in s : TRUE IN CopiesIn(c, calls) + Sum(s \ {c})
    IN  Sum(cs)

\* C26: at most one create of the invoice form, and at most one update of
\* the edit dialog, is in flight at a time (the submit control is disabled
\* from the submission until the store has answered).
C26_OneSubmitInFlight ==
    /\ InFlightOf("saveInvoice") <= 1
    /\ InFlightOf("updateInvoice") <= 1

\* the date of the invoice can be parsed
Parseable(invoice) == NewDate(invoice.date) # NoDate

\* C27: sorted by date with the comparator that parses the dates, a
\* collection that holds dates that cannot be parsed is shown whole (every
\* record once), and its records with parseable dates are in the order of
\* their dates among themselves.
C27_UnparseableDatesSortSafely ==
    (sortKey = "date" /\ tableRevision = "getTime") =>
        /\ Len(SortedInvoices) = Len(FilteredInvoices)
        /\ \A k \in 1..Len(FilteredInvoices) :
               \E n \in 1..Len(SortedInvoices) : SortedInvoices[n] = FilteredInvoices[k]
        /\ \A i, j \in 1..Len(SortedInvoices) :
               (i < j /\ Parseable(SortedInvoices[i]) /\ Parseable(SortedInvoices[j]))
                   => IF sortDirection = "asc"
                      THEN TimeOf(SortedInvoices[i]) <= TimeOf(SortedInvoices[j])
                      ELSE TimeOf(SortedInvoices[i]) >= TimeOf(SortedInvoices[j])

\* C28: deriving the filtered and sorted rows changes nothing it reads: no
\* step that derives them anew changes the collection, and the range of the
\* date filter is afterwards the range it was before, or the range the
\* picker has just handed over, with its `from` and `to` dates untouched.
C28_DerivationChangesNothing ==
    [][/\ invoices' = invoices
       /\ dateRangeFilter' = dateRangeFilter \/ dateRangeFilter' \in DateRanges]_vars

\* the toasts that tell the user of a failure
FailureToasts ==
    FailureTitles \cup {"Error Saving Invoice", "Error Updating Invoice",
                        "Error Deleting Invoice", "Error Loading Invoices"}

\* the page takes the answer c of the store
TakeAnswer(c) ==
    ReceiveInvoices(c) \/ ReceiveSaved(c) \/ ReceiveUpdated(c) \/ ReceiveDeleted(c)

C30_ExtractionAlwaysEnds ==
    /\ isExtracting ~> ~isExtracting
    /\ (reader # "idle") ~> (reader = "idle")

\* an attempt on a file that could not be read has ended and the controls
\* are enabled again
C30_Witness ==
    /\ reader = "idle"
    /\ ~isExtracting
    /\ notices = <<"File Read Error", "Extraction Failed">>
====
